---- MODULE Spec2Model ----
(***************************************************************************)
(* State-machine model of the inbound SES/SNS event reconciliation of the  *)
(* email delivery platform: the webhook handler handle_sns_notification    *)
(* (src/api/routes/events.py), the signature verifier (src/utils/sns.py),  *)
(* the suppression API (src/api/routes/suppression.py) and the relational  *)
(* store they share (src/db/models.py, src/db/session.py).                 *)
(***************************************************************************)
EXTENDS Integers, Sequences, FiniteSets, TLC

VARIABLES
    settings,           \* process configuration read by the handler
    email_logs,         \* table email_logs: sequence of rows, id = index
    email_events,       \* table email_events: sequence of rows, id = index
    suppressed_emails,  \* table suppressed_emails: sequence of rows
    subscribers,        \* table subscribers: sequence of rows, id = index
    now,                \* wall clock (datetime.now), one tick per request
    inflight,           \* open transactions: request slot -> session state
    email_queue,        \* the RQ queue "emails": every job enqueued, id = index
    campaigns,          \* table campaigns: campaign id -> committed status
    campaign_run,       \* the open session of a run_campaign under way
    rate_limiter,       \* send.py's _rate_limiter: max_per_minute and _allowance
    monotonic,          \* time.monotonic(), in quarters of a minute
    last                \* the request answered last and its response

vars == <<settings, email_logs, email_events, suppressed_emails, subscribers,
          now, inflight, email_queue, campaigns, campaign_run, rate_limiter,
          monotonic, last>>

-----------------------------------------------------------------------------
(* Bounds of the model *)

\* number of requests answered in one behaviour (caps the clock)
MaxCalls == 2

-----------------------------------------------------------------------------
(* Values *)

\* Python None / SQL NULL in a string column or payload field
NULL == "null"

\* SQL NULL in email_events.email_log_id (row ids start at 1)
NoId == 0

\* SQL NULL in a DateTime column; None returned by _parse_timestamp
NoTime == 0

\* the instant the worker marked a log sent (datetime.now at send time)
SendTime == 1

\* the instant the payload timestamp TsGood denotes
EventTime == 2

\* the clock when the first request arrives
FirstNow == 3

\* Campaign.status of a new campaign (models.py: default="draft"), and the
\* table with the two campaigns of the model
InitCampaigns == [c \in {1, 2} |-> "draft"]

\* no run_campaign is under way
NoRun == [open |-> FALSE]

\* settings.rate_limit_per_minute (config.py: 120)
RateLimitPerMinute == 120

\* the keys check is called with: send_test_email's, and a tenant's
RateKeys == {"global-test", "T1"}

\* a key that _allowance does not hold
NoAllowance == [stored |-> FALSE]

\* RateLimiter.__init__: no key has an allowance yet
RateLimiter(max_per_minute) ==
    [max_per_minute |-> max_per_minute,
     allowance |-> [key \in RateKeys |-> NoAllowance]]

\* the sessionmaker's autoflush flag
Autoflush == FALSE

Tenants == {"T1", "T2"}
Emails == {"a@example.com", "b@example.com"}
TopicOk == "arn:aws:sns:ses-events"
TopicOther == "arn:aws:sns:other"
Topics == {TopicOk, TopicOther}

\* certificate URLs as urlparse splits them: the hostname as its labels, the
\* path as its leading piece and the rest; malformed is a netloc with an
\* unbalanced bracket, on which urlparse raises ValueError
CertUrl(scheme, hostname, path, malformed) ==
    [scheme |-> scheme, hostname |-> hostname, path |-> path, malformed |-> malformed]
CertUrlOk ==
    CertUrl("https", <<"sns", "us-east-1", "amazonaws", "com">>,
            <<"/SimpleNotificationService-", "x.pem">>, FALSE)
CertUrlEvil ==
    CertUrl("https", <<"sns", "evil", "example", "com">>,
            <<"/SimpleNotificationService-", "x.pem">>, FALSE)
CertUrlRoot ==
    CertUrl("https", <<"sns", "amazonaws", "com">>,
            <<"/SimpleNotificationService-", "y.pem">>, FALSE)
CertUrlHttp ==
    CertUrl("http", <<"sns", "us-east-1", "amazonaws", "com">>,
            <<"/SimpleNotificationService-", "x.pem">>, FALSE)
CertUrlNoHost ==
    CertUrl("https", <<>>, <<"/SimpleNotificationService-", "x.pem">>, FALSE)
CertUrlOtherPath ==
    CertUrl("https", <<"sns", "us-east-1", "amazonaws", "com">>,
            <<"/other/", "x.pem">>, FALSE)
\* payload.get("SigningCertURL") is None
NoCertUrl == CertUrl("", <<>>, <<>>, FALSE)
CertUrlMalformed ==
    CertUrl("https", <<"[sns", "us-east-1", "amazonaws", "com">>,
            <<"/SimpleNotificationService-", "x.pem">>, TRUE)

\* Signature values: base64 text, and text b64decode rejects
SigGood == "c2ln"
SigNotBase64 == "!!!a"

\* timestamps as they arrive in the payload
TsGood == "2025-01-01T00:00:00.000Z"
TsBad == "yesterday"

RECURSIVE SeqToSet(_)
SeqToSet(s) == IF s = <<>> THEN {} ELSE {Head(s)} \cup SeqToSet(Tail(s))

\* ids of a table in ascending order
RECURSIVE SortedIds(_)
SortedIds(S) ==
    IF S = {} THEN <<>>
    ELSE LET m == CHOOSE x \in S : \A y \in S : x <= y
         IN <<m>> \o SortedIds(S \ {m})

-----------------------------------------------------------------------------
(* Pure helpers of the handler *)

\* str.lower() on the strings the payloads carry
Lower(s) ==
    CASE s = "Bounce" -> "bounce"
      [] s = "BOUNCE" -> "bounce"
      [] s = "Complaint" -> "complaint"
      [] s = "Delivery" -> "delivery"
      [] s = "Open" -> "open"
      [] s = "Permanent" -> "permanent"
      [] s = "PERMANENT" -> "permanent"
      [] s = "permanent" -> "permanent"
      [] s = "Transient" -> "transient"
      [] OTHER -> s

\* _parse_timestamp: None for an absent or unparsable value, else the instant
ParseTimestamp(value) ==
    IF value = NULL THEN NoTime
    ELSE IF value = TsGood THEN EventTime
    ELSE NoTime

\* `x or ""` followed by .lower()
LowerOrEmpty(x) == IF x = NULL THEN "" ELSE Lower(x)

\* [r.get("emailAddress") for r in ... if r.get("emailAddress")]
RECURSIVE Addresses(_)
Addresses(rs) ==
    IF rs = <<>> THEN <<>>
    ELSE IF Head(rs) = NULL THEN Addresses(Tail(rs))
    ELSE <<Head(rs)>> \o Addresses(Tail(rs))

-----------------------------------------------------------------------------
(* Rows of the tables *)

\* an EmailLog row as the campaign path and the worker leave it
CampaignLog(t, r, m) ==
    [tenant_id |-> t, campaign_id |-> 1,
     subscriber_id |-> IF t = "T2" THEN 3 ELSE IF r = "a@example.com" THEN 1 ELSE 2,
     recipient_email |-> r, message_id |-> m,
     status |-> "sent", last_event_type |-> "send", last_event_at |-> SendTime,
     last_smtp_response |-> NULL, bounce_type |-> NULL,
     bounce_subtype |-> NULL, complaint_type |-> NULL]

\* an EmailLog row as the synchronous test send leaves it (no tenant)
TestLog(r, m) ==
    [tenant_id |-> NULL, campaign_id |-> NoId, subscriber_id |-> NoId,
     recipient_email |-> r, message_id |-> m,
     status |-> "sent", last_event_type |-> NULL, last_event_at |-> NoTime,
     last_smtp_response |-> NULL, bounce_type |-> NULL,
     bounce_subtype |-> NULL, complaint_type |-> NULL]

\* an EmailLog row written before recipient_email existed (column left NULL)
LegacyLog(t, m) ==
    [tenant_id |-> t, campaign_id |-> 1, subscriber_id |-> NoId,
     recipient_email |-> NULL, message_id |-> m,
     status |-> "sent", last_event_type |-> NULL, last_event_at |-> NoTime,
     last_smtp_response |-> NULL, bounce_type |-> NULL,
     bounce_subtype |-> NULL, complaint_type |-> NULL]

\* variant: every stored event is marked as verified
EmailEventAlwaysVerified(log_id, ses_id, sns_id, etype, topic, verified) ==
    [email_log_id |-> log_id, ses_message_id |-> ses_id,
     sns_message_id |-> sns_id, event_type |-> etype, topic_arn |-> topic,
     signature_verified |-> TRUE]

EmailEvent(log_id, ses_id, sns_id, etype, topic, verified) ==
    [email_log_id |-> log_id, ses_message_id |-> ses_id,
     sns_message_id |-> sns_id, event_type |-> etype, topic_arn |-> topic,
     signature_verified |-> verified]

SuppressedEmail(t, e, reason) == [tenant_id |-> t, email |-> e, reason |-> reason]

Subscriber(t, e, st) == [tenant_id |-> t, email |-> e, status |-> st]

\* the EmailLog tables the send path has committed: two sends sharing one
\* provider message id (in one tenant, or in two), and a legacy row without
\* recipient beside a tenantless test send
LogTables ==
    {<<CampaignLog("T1", "a@example.com", "m1"), CampaignLog("T1", "b@example.com", "m1")>>,
     <<CampaignLog("T1", "a@example.com", "m1"), CampaignLog("T2", "b@example.com", "m1")>>,
     <<LegacyLog("T1", "m1"), TestLog("b@example.com", "m2")>>}

InitSubscribers ==
    <<Subscriber("T1", "a@example.com", "active"),
      Subscriber("T1", "b@example.com", "active"),
      Subscriber("T2", "b@example.com", "active")>>

\* the settings the handler reads (events.py lines 119-139), as deployments
\* set them: production with an allowlist and signatures required,
\* development with no allowlist and verification skipped, and production
\* with no allowlist configured
Configs ==
    {[environment |-> "production", sns_allowed_topic_arns |-> {TopicOk},
      sns_verify_signatures |-> TRUE, sns_skip_signature_verification |-> FALSE],
     [environment |-> "development", sns_allowed_topic_arns |-> {},
      sns_verify_signatures |-> TRUE, sns_skip_signature_verification |-> TRUE],
     [environment |-> "production", sns_allowed_topic_arns |-> {},
      sns_verify_signatures |-> TRUE, sns_skip_signature_verification |-> TRUE]}

-----------------------------------------------------------------------------
(* Signature verifier, src/utils/sns.py *)

\* variant: the path is not compared with the certificate prefix
IsAllowedCertUrlAnyPath(url) ==
    LET host == url.hostname
        n == Len(host)
        isSnsRoot == host = <<"sns", "amazonaws", "com">>
        startsSns == n >= 2 /\ host[1] = "sns"
        endsAws == n >= 3 /\ host[n - 1] = "amazonaws" /\ host[n] = "com"
    IN IF url.scheme # "https" THEN FALSE
       ELSE IF n = 0 THEN FALSE
       ELSE isSnsRoot \/ (startsSns /\ endsAws)

\* variant: the hostname is not compared with the SNS pattern
IsAllowedCertUrlAnyHost(url) ==
    IF url.scheme # "https" THEN FALSE
    ELSE IF Len(url.hostname) = 0 THEN FALSE
    ELSE Len(url.path) >= 1 /\ url.path[1] = "/SimpleNotificationService-"

\* is_allowed_cert_url: https, an SNS host, the certificate path prefix
IsAllowedCertUrl(url) ==
    LET host == url.hostname
        n == Len(host)
        isSnsRoot == host = <<"sns", "amazonaws", "com">>
        startsSns == n >= 2 /\ host[1] = "sns"
        endsAws == n >= 3 /\ host[n - 1] = "amazonaws" /\ host[n] = "com"
    IN IF url.scheme # "https" THEN FALSE
       ELSE IF n = 0 THEN FALSE
       ELSE IF ~isSnsRoot /\ ~(startsSns /\ endsAws) THEN FALSE
       ELSE Len(url.path) >= 1 /\ url.path[1] = "/SimpleNotificationService-"

\* base64.b64decode succeeds
B64Decodes(sig) == sig = SigGood

\* what one call of the verifier gives back: a (bool, reason) pair, or an
\* exception that leaves the function; fetches counts _fetch_url calls
Verdict(verified, reason, fetches) ==
    [verified |-> verified, reason |-> reason, fetches |-> fetches, raised |-> FALSE]

Raised(reason, fetches) ==
    [verified |-> FALSE, reason |-> reason, fetches |-> fetches, raised |-> TRUE]

\* what the network and openssl answer during one request
\* (fetch_failed: no URL can be fetched; confirm_failed: only the GET of the
\* SubscribeURL fails)
NetOutcomes ==
    {"ok", "fetch_failed", "confirm_failed", "pubkey_failed", "verify_failed",
     "openssl_missing", "openssl_timeout"}

\* variant: the confirmation is reported as done whatever the GET did
ConfirmSubscriptionUnchecked(subscribe_url, net) == TRUE

\* confirm_subscription: one GET of the SubscribeURL, False when it fails
ConfirmSubscription(subscribe_url, net) ==
    net \notin {"fetch_failed", "confirm_failed"}

\* variant: a certificate fetch that failed is tried once more
VerifySnsSignatureRetrying(payload, net) ==
    IF payload.SignatureVersion # "1"
    THEN Verdict(FALSE, "Unsupported SignatureVersion", 0)
    ELSE IF payload.Signature = NULL \/ payload.SigningCertURL = NoCertUrl
    THEN Verdict(FALSE, "Missing Signature or SigningCertURL", 0)
    ELSE IF payload.SigningCertURL.malformed
    THEN Raised("ValueError", 0)
    ELSE IF ~IsAllowedCertUrl(payload.SigningCertURL)
    THEN Verdict(FALSE, "SigningCertURL is not allowed", 0)
    ELSE IF net = "fetch_failed"
    THEN Verdict(FALSE, "Failed to fetch SigningCertURL", 2)
    ELSE IF ~B64Decodes(payload.Signature)
    THEN Verdict(FALSE, "Invalid Signature encoding", 1)
    ELSE IF net = "openssl_missing"
    THEN Verdict(FALSE, "openssl is not available for signature verification", 1)
    ELSE IF net = "openssl_timeout"
    THEN Verdict(FALSE, "Signature verification error", 1)
    ELSE IF net = "pubkey_failed"
    THEN Verdict(FALSE, "Failed to extract public key", 1)
    ELSE IF net = "verify_failed"
    THEN Verdict(FALSE, "Signature verification failed", 1)
    ELSE Verdict(TRUE, "ok", 1)

\* verify_sns_signature: net holds what the network and openssl answer
VerifySnsSignature(payload, net) ==
    IF payload.SignatureVersion # "1"
    THEN Verdict(FALSE, "Unsupported SignatureVersion", 0)
    ELSE IF payload.Signature = NULL \/ payload.SigningCertURL = NoCertUrl
    THEN Verdict(FALSE, "Missing Signature or SigningCertURL", 0)
    ELSE IF payload.SigningCertURL.malformed
    THEN Raised("ValueError", 0)
    ELSE IF ~IsAllowedCertUrl(payload.SigningCertURL)
    THEN Verdict(FALSE, "SigningCertURL is not allowed", 0)
    ELSE IF net = "fetch_failed"
    THEN Verdict(FALSE, "Failed to fetch SigningCertURL", 1)
    ELSE IF ~B64Decodes(payload.Signature)
    THEN Verdict(FALSE, "Invalid Signature encoding", 1)
    ELSE IF net = "openssl_missing"
    THEN Verdict(FALSE, "openssl is not available for signature verification", 1)
    ELSE IF net = "openssl_timeout"
    THEN Verdict(FALSE, "Signature verification error", 1)
    ELSE IF net = "pubkey_failed"
    THEN Verdict(FALSE, "Failed to extract public key", 1)
    ELSE IF net = "verify_failed"
    THEN Verdict(FALSE, "Signature verification failed", 1)
    ELSE Verdict(TRUE, "ok", 1)

-----------------------------------------------------------------------------
(* Reconciliation, src/api/routes/events.py *)

\* the part of the session a request builds up before db.commit()
EmptyTx ==
    [ids |-> <<>>, loaded |-> <<>>, updated |-> <<>>,
     new_suppressed |-> <<>>, dirty_subscribers |-> {}, new_events |-> <<>>]

\* rows a query sees: committed rows, and pending ones only under autoflush
Visible(committed, pending) == IF Autoflush THEN committed \o pending ELSE committed

\* mail.destination, with a bare string wrapped into a list
Destinations(message) ==
    IF message.destination.str
    THEN <<message.destination.items[1]>>
    ELSE message.destination.items

\* lines 160-209: the normalized event read from the notification body
Classify(message) ==
    LET notification_type == LowerOrEmpty(message.notificationType)
        base == [notification_type |-> notification_type,
                 event_type |-> IF notification_type = "" THEN "unknown"
                                ELSE notification_type,
                 ses_message_id |-> message.messageId,
                 destinations |-> Destinations(message),
                 new_status |-> "unknown",
                 smtp_response |-> NULL,
                 bounce_type |-> NULL,
                 bounce_subtype |-> NULL,
                 complaint_type |-> NULL,
                 event_time |-> NoTime,
                 bounced_recipients |-> <<>>,
                 complained_recipients |-> <<>>]
    IN IF notification_type = "bounce"
       THEN [base EXCEPT !.bounce_type = message.bounceType,
                         !.bounce_subtype = message.bounceSubType,
                         !.event_time = ParseTimestamp(message.timestamp),
                         !.bounced_recipients = Addresses(message.recipients),
                         !.new_status = "bounced"]
       ELSE IF notification_type = "complaint"
       THEN [base EXCEPT !.complaint_type = message.complaintFeedbackType,
                         !.event_time = ParseTimestamp(message.timestamp),
                         !.complained_recipients = Addresses(message.recipients),
                         !.new_status = "complaint"]
       ELSE IF notification_type = "delivery"
       THEN [base EXCEPT !.smtp_response = message.smtpResponse,
                         !.event_time = ParseTimestamp(message.timestamp),
                         !.new_status = "delivered"]
       ELSE base

\* variant: the query by message_id alone, never narrowed to the destinations
CorrelatedLogsUnnarrowed(logs, ses_message_id, destinations) ==
    IF ses_message_id = NULL THEN {}
    ELSE {i \in 1..Len(logs) : logs[i].message_id = ses_message_id}

\* lines 211-217: ids of the EmailLogs the event is applied to
CorrelatedLogs(logs, ses_message_id, destinations) ==
    IF ses_message_id = NULL THEN {}
    ELSE LET query == {i \in 1..Len(logs) : logs[i].message_id = ses_message_id}
             narrowed == IF destinations = <<>> THEN {}
                         ELSE {i \in query :
                                 logs[i].recipient_email \in SeqToSet(destinations)}
         IN IF narrowed # {} THEN narrowed ELSE query

\* variant: last_event_at takes the event timestamp with no fall-back to now
UpdateLogNoClock(log, ev, clock) ==
    [log EXCEPT !.status = ev.new_status,
                !.last_event_type = ev.event_type,
                !.last_event_at = ev.event_time,
                !.last_smtp_response = ev.smtp_response,
                !.bounce_type = ev.bounce_type,
                !.bounce_subtype = ev.bounce_subtype,
                !.complaint_type = ev.complaint_type]

\* variant: an event older than the row's last_event_at is not applied
UpdateLogNewestOnly(log, ev, clock) ==
    IF ev.event_time # NoTime /\ ev.event_time < log.last_event_at
    THEN log
    ELSE [log EXCEPT !.status = ev.new_status,
                     !.last_event_type = ev.event_type,
                     !.last_event_at = IF ev.event_time # NoTime THEN ev.event_time
                                       ELSE clock,
                     !.last_smtp_response = ev.smtp_response,
                     !.bounce_type = ev.bounce_type,
                     !.bounce_subtype = ev.bounce_subtype,
                     !.complaint_type = ev.complaint_type]

\* variant: the row is also detached from its campaign and subscriber
UpdateLogDetaching(log, ev, clock) ==
    [log EXCEPT !.message_id = IF ev.ses_message_id # NULL /\ log.message_id = NULL
                               THEN ev.ses_message_id ELSE log.message_id,
                !.campaign_id = NoId,
                !.subscriber_id = NoId,
                !.status = ev.new_status,
                !.last_event_type = ev.event_type,
                !.last_event_at = IF ev.event_time # NoTime THEN ev.event_time
                                  ELSE clock,
                !.last_smtp_response = ev.smtp_response,
                !.bounce_type = ev.bounce_type,
                !.bounce_subtype = ev.bounce_subtype,
                !.complaint_type = ev.complaint_type]

\* _update_logs on one row
UpdateLog(log, ev, clock) ==
    [log EXCEPT !.message_id = IF ev.ses_message_id # NULL /\ log.message_id = NULL
                               THEN ev.ses_message_id ELSE log.message_id,
                !.status = ev.new_status,
                !.last_event_type = ev.event_type,
                !.last_event_at = IF ev.event_time # NoTime THEN ev.event_time
                                  ELSE clock,
                !.last_smtp_response = ev.smtp_response,
                !.bounce_type = ev.bounce_type,
                !.bounce_subtype = ev.bounce_subtype,
                !.complaint_type = ev.complaint_type]

\* variant: every bounce suppresses, whatever its bounceType
ShouldSuppressAnyBounce(ev) ==
    ev.notification_type \in {"complaint", "bounce"}

\* line 235: complaints always, bounces only when bounceType is permanent
ShouldSuppress(ev) ==
    \/ ev.notification_type = "complaint"
    \/ ev.notification_type = "bounce" /\ LowerOrEmpty(ev.bounce_type) = "permanent"

\* line 239: bounced_recipients or complained_recipients or destinations
SuppressionRecipients(ev) ==
    IF ev.bounced_recipients # <<>> THEN ev.bounced_recipients
    ELSE IF ev.complained_recipients # <<>> THEN ev.complained_recipients
    ELSE ev.destinations

\* variant: the row is added without looking for an existing one
AddSuppressionUnchecked(db, tx, tenant_id, email, reason) ==
    IF tenant_id = NULL THEN tx
    ELSE LET matches == {i \in 1..Len(db.subscribers) :
                            /\ db.subscribers[i].tenant_id = tenant_id
                            /\ db.subscribers[i].email = email}
         IN [tx EXCEPT
                !.new_suppressed = Append(@, SuppressedEmail(tenant_id, email, reason)),
                !.dirty_subscribers =
                    IF matches = {} THEN @
                    ELSE @ \cup {CHOOSE i \in matches : \A j \in matches : i <= j}]

\* variant: a log without tenant_id is suppressed for like any other
AddSuppressionTenantless(db, tx, tenant_id, email, reason) ==
    LET seen == Visible(db.suppressed_emails, tx.new_suppressed)
        existing == \E i \in 1..Len(seen) :
                       seen[i].tenant_id = tenant_id /\ seen[i].email = email
        matches == {i \in 1..Len(db.subscribers) :
                       /\ db.subscribers[i].tenant_id = tenant_id
                       /\ db.subscribers[i].email = email}
    IN IF existing THEN tx
       ELSE [tx EXCEPT
               !.new_suppressed = Append(@, SuppressedEmail(tenant_id, email, reason)),
               !.dirty_subscribers =
                   IF matches = {} THEN @
                   ELSE @ \cup {CHOOSE i \in matches : \A j \in matches : i <= j}]

\* _add_suppression for one (tenant, recipient) within the session tx
AddSuppression(db, tx, tenant_id, email, reason) ==
    IF tenant_id = NULL THEN tx
    ELSE LET seen == Visible(db.suppressed_emails, tx.new_suppressed)
             existing == \E i \in 1..Len(seen) :
                            seen[i].tenant_id = tenant_id /\ seen[i].email = email
             matches == {i \in 1..Len(db.subscribers) :
                            /\ db.subscribers[i].tenant_id = tenant_id
                            /\ db.subscribers[i].email = email}
         IN IF existing THEN tx
            ELSE [tx EXCEPT
                    !.new_suppressed = Append(@, SuppressedEmail(tenant_id, email, reason)),
                    !.dirty_subscribers =
                        IF matches = {} THEN @
                        ELSE @ \cup {CHOOSE i \in matches : \A j \in matches : i <= j}]

\* lines 240-242: for log in logs: for recipient_email in recipients
RECURSIVE SuppressRecipients(_, _, _, _, _)
SuppressRecipients(db, tx, tenant_id, recipients, reason) ==
    IF recipients = <<>> THEN tx
    ELSE SuppressRecipients(db,
                            AddSuppression(db, tx, tenant_id, Head(recipients), reason),
                            tenant_id, Tail(recipients), reason)

RECURSIVE SuppressLogs(_, _, _, _, _)
SuppressLogs(db, tx, ids, recipients, reason) ==
    IF ids = <<>> THEN tx
    ELSE SuppressLogs(db,
                      SuppressRecipients(db, tx, db.email_logs[Head(ids)].tenant_id,
                                         recipients, reason),
                      Tail(ids), recipients, reason)

\* variant: an event that refers to no EmailLog is not recorded
PersistEventLinkedOnly(db, tx, row) ==
    LET seen == Visible(db.email_events, tx.new_events)
        exists == \E i \in 1..Len(seen) :
                     /\ seen[i].sns_message_id = row.sns_message_id
                     /\ seen[i].topic_arn = row.topic_arn
    IN IF row.sns_message_id # NULL /\ row.topic_arn # NULL /\ exists
       THEN tx
       ELSE IF row.email_log_id = NoId THEN tx
       ELSE [tx EXCEPT !.new_events = Append(@, row)]

\* _persist_event: skip when a row with the same (sns_message_id, topic_arn) is seen
PersistEvent(db, tx, row) ==
    LET seen == Visible(db.email_events, tx.new_events)
        exists == \E i \in 1..Len(seen) :
                     /\ seen[i].sns_message_id = row.sns_message_id
                     /\ seen[i].topic_arn = row.topic_arn
    IN IF row.sns_message_id # NULL /\ row.topic_arn # NULL /\ exists
       THEN tx
       ELSE [tx EXCEPT !.new_events = Append(@, row)]

\* lines 246-257: one _persist_event per correlated log
RECURSIVE PersistForLogs(_, _, _, _)
PersistForLogs(db, tx, ids, row) ==
    IF ids = <<>> THEN tx
    ELSE PersistForLogs(db,
                        PersistEvent(db, tx, [row EXCEPT !.email_log_id = Head(ids)]),
                        Tail(ids), row)

\* the notification body: a JSON object, absent, or text that is not JSON
Message(form, nt, mid, dest, bt, ct, rec, ts, smtp) ==
    [form |-> form, notificationType |-> nt, messageId |-> mid,
     destination |-> dest, bounceType |-> bt,
     bounceSubType |-> IF bt = NULL THEN NULL ELSE "General",
     complaintFeedbackType |-> ct, recipients |-> rec, timestamp |-> ts,
     smtpResponse |-> smtp]

NoDestination == [str |-> FALSE, items |-> <<>>]

UnreadMessage(form) ==
    Message(form, NULL, NULL, NoDestination, NULL, NULL, <<>>, NULL, NULL)

\* variant: an empty allowlist lets every topic in, whatever the environment
TopicCheckEmptyAllowsAll(cfg, topic_arn) ==
    IF cfg.sns_allowed_topic_arns # {} /\ topic_arn \notin cfg.sns_allowed_topic_arns
    THEN "TopicArn not allowed"
    ELSE "ok"

\* lines 119-124: the topic allowlist
TopicCheck(cfg, topic_arn) ==
    IF cfg.sns_allowed_topic_arns = {} /\ cfg.environment # "development"
    THEN "SNS topics not configured"
    ELSE IF cfg.sns_allowed_topic_arns # {} /\ topic_arn \notin cfg.sns_allowed_topic_arns
    THEN "TopicArn not allowed"
    ELSE "ok"

\* variant: only the development skip switches the verifier off
VerificationRequiredUnlessSkipped(cfg) ==
    ~(cfg.environment = "development" /\ cfg.sns_skip_signature_verification)

\* line 127-128: whether verify_sns_signature is called
VerificationRequired(cfg) ==
    /\ cfg.sns_verify_signatures
    /\ ~(cfg.environment = "development" /\ cfg.sns_skip_signature_verification)

\* the HTTP answer, the session to commit, and what the call did on the way
Response(code, status, tx, verified, cert_fetches, confirm_fetches) ==
    [code |-> code, status |-> status, tx |-> tx, signature_verified |-> verified,
     cert_fetches |-> cert_fetches, confirm_fetches |-> confirm_fetches]

\* lines 160-270: classify, correlate, update, suppress, persist
Reconcile(db, clock, payload, signature_verified) ==
    LET ev == Classify(payload.Message)
        idset == CorrelatedLogs(db.email_logs, ev.ses_message_id, ev.destinations)
        ids == SortedIds(idset)
        tx0 == [EmptyTx EXCEPT
                  !.ids = ids,
                  !.loaded = [i \in idset |-> db.email_logs[i]],
                  !.updated = [i \in idset |-> UpdateLog(db.email_logs[i], ev, clock)]]
        tx1 == IF idset # {} /\ ev.notification_type \in {"bounce", "complaint"}
                  /\ ShouldSuppress(ev)
               THEN SuppressLogs(db, tx0, ids, SuppressionRecipients(ev),
                                 ev.notification_type)
               ELSE tx0
        row == EmailEvent(NoId, ev.ses_message_id, payload.MessageId, ev.event_type,
                          payload.TopicArn, signature_verified)
        tx2 == IF idset # {} THEN PersistForLogs(db, tx1, ids, row)
               ELSE PersistEvent(db, tx1, row)
    IN [tx |-> tx2, status |-> ev.new_status]

\* handle_sns_notification up to db.commit(): the response and the session;
\* an exception leaving the handler is answered 500 by the framework
HandleSnsNotification(cfg, db, clock, payload, net) ==
    LET topic == TopicCheck(cfg, payload.TopicArn)
        required == VerificationRequired(cfg)
        check == IF required THEN VerifySnsSignature(payload, net)
                 ELSE Verdict(FALSE, "skipped", 0)
        fetched == check.fetches
        passed == topic = "ok" /\ (required => check.verified)
        answer ==
            IF topic # "ok"
            THEN Response(403, topic, EmptyTx, FALSE, 0, 0)
            ELSE IF required /\ check.raised
            THEN Response(500, "Internal Server Error", EmptyTx, FALSE, fetched, 0)
            ELSE IF required /\ ~check.verified
            THEN Response(403, "Invalid SNS signature", EmptyTx, FALSE, fetched, 0)
            ELSE IF payload.Type = "SubscriptionConfirmation"
            THEN IF payload.SubscribeURL = NULL
                 THEN Response(400, "Missing SubscribeURL", EmptyTx, required, fetched, 0)
                 ELSE Response(200,
                               IF ConfirmSubscription(payload.SubscribeURL, net)
                               THEN "confirmed" ELSE "failed",
                               EmptyTx, required, fetched, 1)
            ELSE IF payload.Type = "UnsubscribeConfirmation"
            THEN Response(200, "ok", EmptyTx, required, fetched, 0)
            ELSE IF payload.Type # "Notification"
            THEN Response(400, "Unsupported SNS message type", EmptyTx, required, fetched, 0)
            ELSE IF payload.Message.form = "absent"
            THEN Response(400, "Missing SNS Message body", EmptyTx, required, fetched, 0)
            ELSE IF payload.Message.form = "invalid"
            THEN Response(400, "Invalid SNS Message JSON", EmptyTx, required, fetched, 0)
            ELSE LET r == Reconcile(db, clock, payload, required)
                 IN Response(200, r.status, r.tx, required, fetched, 0)
    IN answer @@ [verifier_calls |-> IF topic = "ok" /\ required THEN 1 ELSE 0,
                  message_read |-> passed /\ payload.Type = "Notification"]

\* one UPDATE per dirty row, setting the columns the session changed
FlushLog(current, loaded, updated) ==
    [f \in DOMAIN current |-> IF updated[f] # loaded[f] THEN updated[f] ELSE current[f]]

\* variant: the log updates and suppressions are written, the events are not
CommitWithoutEvents(db, tx) ==
    LET dirty == DOMAIN tx.updated
    IN [email_logs |->
            [i \in 1..Len(db.email_logs) |->
                IF i \in dirty
                THEN FlushLog(db.email_logs[i], tx.loaded[i], tx.updated[i])
                ELSE db.email_logs[i]],
        email_events |-> db.email_events,
        suppressed_emails |-> db.suppressed_emails \o tx.new_suppressed,
        subscribers |->
            [i \in 1..Len(db.subscribers) |->
                IF i \in tx.dirty_subscribers
                THEN [db.subscribers[i] EXCEPT !.status = "suppressed"]
                ELSE db.subscribers[i]]]

\* db.commit(): flush the session into the tables
Commit(db, tx) ==
    LET dirty == DOMAIN tx.updated
    IN [email_logs |->
            [i \in 1..Len(db.email_logs) |->
                IF i \in dirty
                THEN FlushLog(db.email_logs[i], tx.loaded[i], tx.updated[i])
                ELSE db.email_logs[i]],
        email_events |-> db.email_events \o tx.new_events,
        suppressed_emails |-> db.suppressed_emails \o tx.new_suppressed,
        subscribers |->
            [i \in 1..Len(db.subscribers) |->
                IF i \in tx.dirty_subscribers
                THEN [db.subscribers[i] EXCEPT !.status = "suppressed"]
                ELSE db.subscribers[i]]]

\* the committed tables as one value
Db == [email_logs |-> email_logs, email_events |-> email_events,
       suppressed_emails |-> suppressed_emails, subscribers |-> subscribers]

-----------------------------------------------------------------------------
(* Inputs *)

DestA == [str |-> FALSE, items |-> <<"a@example.com">>]
DestAB == [str |-> FALSE, items |-> <<"a@example.com", "b@example.com">>]
DestStrB == [str |-> TRUE, items |-> <<"b@example.com">>]

DestinationValues == {NoDestination, DestA, DestAB, DestStrB}

\* bouncedRecipients / complainedRecipients as their emailAddress values
RecipientValues == {<<>>, <<"a@example.com">>, <<NULL, "b@example.com">>}

BounceTypes == {"Permanent", "PERMANENT", "Transient", NULL}

\* bodies whose mail.messageId may match logs: every classification
\* against every recipient list, and every destination for deliveries
Messages ==
    {Message("json", "Bounce", "m1", DestAB, bt, NULL, rec, TsGood, NULL) :
        bt \in BounceTypes, rec \in RecipientValues}
    \cup
    {Message("json", "Bounce", mid, NoDestination, bt, NULL,
             <<"b@example.com">>, NULL, NULL) :
        mid \in {"m1", "m2", NULL}, bt \in {"Permanent", "Transient"}}
    \cup
    {Message("json", "Complaint", "m1", DestAB, NULL, ct, rec, TsGood, NULL) :
        ct \in {"abuse", NULL}, rec \in RecipientValues}
    \cup
    {Message("json", "Complaint", mid, NoDestination, NULL, "abuse",
             <<"b@example.com">>, NULL, NULL) :
        mid \in {"m2", NULL}}
    \cup
    {Message("json", "Delivery", "m1", dest, NULL, NULL, <<>>, ts, "250 Ok") :
        dest \in DestinationValues, ts \in {TsGood, NULL}}
    \cup
    {Message("json", "Delivery", mid, NoDestination, NULL, NULL, <<>>, TsBad, "250 Ok") :
        mid \in {"m1", "m2", NULL}}
    \cup
    {Message("json", nt, "m1", NoDestination, NULL, NULL, <<>>, NULL, NULL) :
        nt \in {"Open", NULL}}

Envelope(type, topic, id, version, sig, cert, url, message) ==
    [Type |-> type, TopicArn |-> topic, MessageId |-> id,
     SignatureVersion |-> version, Signature |-> sig, SigningCertURL |-> cert,
     SubscribeURL |-> url, Message |-> message]

\* bodies that also arrive under the other (TopicArn, MessageId) pairs
CoreMessages ==
    {Message("json", "Delivery", "m1", DestA, NULL, NULL, <<>>, ts, "250 Ok") :
        ts \in {TsGood, NULL}}
    \cup
    {Message("json", "Bounce", "m1", DestAB, bt, NULL, <<"a@example.com">>,
             TsGood, NULL) : bt \in {"Permanent", "Transient"}}
    \cup
    {Message("json", "Complaint", "m2", NoDestination, NULL, "abuse",
             <<"b@example.com">>, NULL, NULL)}

\* the (TopicArn, MessageId) pairs notifications arrive with
DedupKeys == {<<TopicOk, "s2">>, <<TopicOk, NULL>>, <<TopicOther, "s1">>}

\* well-signed Notification envelopes: every body under one pair, the core
\* bodies under the others
NotificationEnvelopes ==
    {Envelope("Notification", TopicOk, "s1", "1", "c2ln", CertUrlOk, NULL, m) :
        m \in Messages}
    \cup
    {Envelope("Notification", k[1], k[2], "1", "c2ln", CertUrlOk, NULL, m) :
        k \in DedupKeys, m \in CoreMessages}

\* envelopes that end before a body is read: other types, bad signatures,
\* absent or malformed bodies
ControlEnvelopes ==
    {Envelope(type, topic, "s1", "1", "c2ln", CertUrlOk, url, UnreadMessage("absent")) :
        type \in {"SubscriptionConfirmation", "UnsubscribeConfirmation", "Other"},
        topic \in Topics, url \in {"https://sns/confirm", NULL}}
    \cup
    {Envelope("Notification", TopicOk, "s1", version, sig, cert, NULL,
              UnreadMessage(form)) :
        version \in {"1", "2"}, sig \in {"c2ln", NULL},
        cert \in {CertUrlOk, CertUrlEvil}, form \in {"absent", "invalid"}}

\* a request: the envelope and what the network and openssl answer during it
SnsRequests ==
    {[payload |-> p, net |-> "ok"] : p \in NotificationEnvelopes \cup ControlEnvelopes}
    \cup
    {[payload |-> Envelope(type, TopicOk, "s1", "1", "c2ln", CertUrlOk,
                           "https://sns/confirm", UnreadMessage("absent")),
      net |-> n] :
        type \in {"Notification", "SubscriptionConfirmation"},
        n \in {"fetch_failed", "pubkey_failed", "verify_failed"}}

-----------------------------------------------------------------------------
(* The state machine *)

Reqs == {"r1", "r2"}

Idle == [busy |-> FALSE]

\* no request yet
NoRequest ==
    [payload |-> Envelope("none", NULL, NULL, "1", NULL, CertUrlOk, NULL,
                          UnreadMessage("absent")),
     net |-> "none"]

\* an answer that involved no verifier, no fetch and no notification body
Quiet(code, status) ==
    [code |-> code, status |-> status, signature_verified |-> FALSE,
     cert_fetches |-> 0, confirm_fetches |-> 0, verifier_calls |-> 0,
     message_read |-> FALSE]

\* the record kept of the request answered last
Answered(op, req, res) ==
    [op |-> op, req |-> req] @@ [f \in DOMAIN res \ {"tx"} |-> res[f]]

Init ==
    /\ settings \in Configs
    /\ email_logs \in LogTables
    /\ email_events = <<>>
    /\ suppressed_emails = <<>>
    /\ subscribers = InitSubscribers
    /\ now = FirstNow
    /\ inflight = [r \in Reqs |-> Idle]
    /\ campaigns = InitCampaigns
    /\ campaign_run = NoRun
    /\ rate_limiter = RateLimiter(RateLimitPerMinute)
    /\ monotonic = 0
    /\ email_queue = <<>>
    /\ last = Answered("none", NoRequest, Quiet(0, NULL))

SetDb(db) ==
    /\ email_logs' = db.email_logs
    /\ email_events' = db.email_events
    /\ suppressed_emails' = db.suppressed_emails
    /\ subscribers' = db.subscribers

ClockOpen == now < FirstNow + MaxCalls

\* one request from the given set served start to end, commit included
Serve(requests) ==
    /\ \A r \in Reqs : inflight[r] = Idle
    /\ \E req \in requests :
         LET res == HandleSnsNotification(settings, Db, now, req.payload, req.net)
         IN /\ SetDb(Commit(Db, res.tx))
            /\ last' = Answered("sns", req, res)
    /\ now' = now + 1
    /\ UNCHANGED <<rate_limiter, monotonic, campaigns, campaign_run, settings, inflight, email_queue>>

\* POST /events/sns served start to end with no other request in between
HandleSns == ClockOpen /\ Serve(SnsRequests)

\* POST /suppression/
AddSuppressionApi ==
    /\ ClockOpen
    /\ \A r \in Reqs : inflight[r] = Idle
    /\ \E t \in Tenants, e \in Emails :
         LET existing == \E i \in 1..Len(suppressed_emails) :
                            /\ suppressed_emails[i].tenant_id = t
                            /\ suppressed_emails[i].email = e
         IN IF existing
            THEN /\ last' = Answered("add_suppression", NoRequest,
                                      Quiet(409, "Email already suppressed"))
                 /\ UNCHANGED suppressed_emails
            ELSE /\ suppressed_emails' =
                        Append(suppressed_emails, SuppressedEmail(t, e, "manual"))
                 /\ last' = Answered("add_suppression", NoRequest,
                                      Quiet(201, "created"))
    /\ now' = now + 1
    /\ UNCHANGED <<rate_limiter, monotonic, campaigns, campaign_run, settings, email_logs, email_events, subscribers, inflight,
                   email_queue>>

Next == HandleSns \/ AddSuppressionApi

Spec == Init /\ [][Next]_vars

-----------------------------------------------------------------------------
(* Two requests served concurrently, each in its own session: a request     *)
(* reads the committed tables while it runs and writes them at db.commit()  *)

\* the handler runs up to db.commit(): its queries see what is committed now
SnsBegin(r) ==
    /\ ClockOpen
    /\ inflight[r] = Idle
    /\ \E req \in SnsRequests :
         LET res == HandleSnsNotification(settings, Db, now, req.payload, req.net)
         IN inflight' = [inflight EXCEPT ![r] = [busy |-> TRUE, req |-> req, res |-> res]]
    /\ now' = now + 1
    /\ UNCHANGED <<rate_limiter, monotonic, campaigns, campaign_run, settings, email_logs, email_events, suppressed_emails,
                   subscribers, last, email_queue>>

\* db.commit() and the response
SnsFinish(r) ==
    /\ inflight[r].busy
    /\ SetDb(Commit(Db, inflight[r].res.tx))
    /\ last' = Answered("sns", inflight[r].req, inflight[r].res)
    /\ inflight' = [inflight EXCEPT ![r] = Idle]
    /\ UNCHANGED <<rate_limiter, monotonic, campaigns, campaign_run, settings, now, email_queue>>

\* an exception before db.commit() returns: get_db closes the session, what
\* the session held is discarded, the caller is answered 500
SnsFail(r) ==
    /\ inflight[r].busy
    /\ last' = Answered("sns", inflight[r].req,
                        [inflight[r].res EXCEPT !.code = 500,
                                                !.status = "Internal Server Error"])
    /\ inflight' = [inflight EXCEPT ![r] = Idle]
    /\ UNCHANGED <<rate_limiter, monotonic, campaigns, campaign_run, settings, email_logs, email_events, suppressed_emails,
                   subscribers, now, email_queue>>

Begin == \E r \in Reqs : SnsBegin(r)

Finish == \E r \in Reqs : SnsFinish(r)

NextConc == Begin \/ Finish

SpecConc == Init /\ [][NextConc]_vars

-----------------------------------------------------------------------------
(* Concurrent requests that may also fail before they commit *)

\* the core bodies under one pair, a confirmation, and a bad signature
FailingRequests ==
    {[payload |-> Envelope("Notification", TopicOk, "s1", "1", SigGood, CertUrlOk,
                           NULL, m),
      net |-> "ok"] : m \in CoreMessages}
    \cup
    {[payload |-> Envelope("SubscriptionConfirmation", TopicOk, "s1", "1", SigGood,
                           CertUrlOk, "https://sns/confirm", UnreadMessage("absent")),
      net |-> n] : n \in {"ok", "verify_failed"}}

\* the handler runs up to db.commit() on one of these requests
SnsStart(r) ==
    /\ ClockOpen
    /\ inflight[r] = Idle
    /\ \E req \in FailingRequests :
         LET res == HandleSnsNotification(settings, Db, now, req.payload, req.net)
         IN inflight' = [inflight EXCEPT ![r] = [busy |-> TRUE, req |-> req, res |-> res]]
    /\ now' = now + 1
    /\ UNCHANGED <<rate_limiter, monotonic, campaigns, campaign_run, settings, email_logs, email_events, suppressed_emails,
                   subscribers, last, email_queue>>

Start == \E r \in Reqs : SnsStart(r)

Fail == \E r \in Reqs : SnsFail(r)

NextAtomic == Start \/ Finish \/ Fail

SpecAtomic == Init /\ [][NextAtomic]_vars

-----------------------------------------------------------------------------
(* One request against every deployment: the checks in front of the          *)
(* reconciliation (topic allowlist, signature, envelope type, body)          *)

\* every combination of the settings the handler reads
GateConfigs ==
    {[environment |-> env, sns_allowed_topic_arns |-> allowed,
      sns_verify_signatures |-> verify, sns_skip_signature_verification |-> skip] :
        env \in {"production", "development"}, allowed \in {{}, {TopicOk}},
        verify \in BOOLEAN, skip \in BOOLEAN}

GateCertUrls ==
    {CertUrlOk, CertUrlRoot, CertUrlEvil, CertUrlHttp, CertUrlNoHost,
     CertUrlOtherPath, CertUrlMalformed, NoCertUrl}

\* envelope Type with SubscribeURL and Message: every branch of the dispatch
GateBodies ==
    {[type |-> "Notification", url |-> NULL,
      message |-> Message("json", "Delivery", "m1", DestA, NULL, NULL, <<>>,
                          TsGood, "250 Ok")],
     [type |-> "Notification", url |-> NULL,
      message |-> Message("json", "Bounce", "m1", DestA, "Permanent", NULL,
                          <<"a@example.com">>, TsGood, NULL)],
     [type |-> "Notification", url |-> NULL, message |-> UnreadMessage("absent")],
     [type |-> "Notification", url |-> NULL, message |-> UnreadMessage("invalid")],
     [type |-> "SubscriptionConfirmation", url |-> "https://sns/confirm",
      message |-> UnreadMessage("absent")],
     [type |-> "SubscriptionConfirmation", url |-> NULL,
      message |-> UnreadMessage("absent")],
     [type |-> "UnsubscribeConfirmation", url |-> NULL,
      message |-> UnreadMessage("absent")],
     [type |-> "Other", url |-> NULL, message |-> UnreadMessage("absent")]}

GateRequests ==
    {[payload |-> Envelope(b.type, topic, "s1", version, sig, cert, b.url, b.message),
      net |-> n] :
        b \in GateBodies, topic \in {TopicOk, TopicOther, NULL},
        version \in {"1", "2"}, sig \in {SigGood, SigNotBase64, NULL},
        cert \in GateCertUrls, n \in NetOutcomes}

InitGate ==
    /\ settings \in GateConfigs
    /\ email_logs = <<CampaignLog("T1", "a@example.com", "m1"),
                      CampaignLog("T1", "b@example.com", "m1")>>
    /\ email_events = <<>>
    /\ suppressed_emails = <<>>
    /\ subscribers = InitSubscribers
    /\ now = FirstNow
    /\ inflight = [r \in Reqs |-> Idle]
    /\ campaigns = InitCampaigns
    /\ campaign_run = NoRun
    /\ rate_limiter = RateLimiter(RateLimitPerMinute)
    /\ monotonic = 0
    /\ email_queue = <<>>
    /\ last = Answered("none", NoRequest, Quiet(0, NULL))

\* the one request of the behaviour
GateCall == last.op = "none" /\ Serve(GateRequests)

NextGate == GateCall

SpecGate == InitGate /\ [][NextGate]_vars

-----------------------------------------------------------------------------
(* verify_sns_signature on its own: one call per behaviour *)

VerifyCall ==
    /\ last.op = "none"
    /\ \E req \in GateRequests :
         last' = [op |-> "verify", req |-> req]
                 @@ VerifySnsSignature(req.payload, req.net)
    /\ UNCHANGED <<rate_limiter, monotonic, campaigns, campaign_run, settings, email_logs, email_events, suppressed_emails,
                   subscribers, now, inflight, email_queue>>

NextVerify == VerifyCall

SpecVerify == InitGate /\ [][NextVerify]_vars

-----------------------------------------------------------------------------
(* Properties of POST /events/sns.  In a step that serves a request the     *)
(* unprimed tables are those committed before it, the primed ones those     *)
(* committed after it, and last' holds the request and its response.        *)

\* the step serves one POST /events/sns from start to end
SnsStep == last'.op = "sns" /\ now' = now + 1 /\ inflight' = inflight

Served == last'.req.payload

Body == Served.Message

\* a Notification with a JSON body that the topic and signature checks let in
AdmittedNotification ==
    /\ SnsStep
    /\ Served.Type = "Notification"
    /\ Body.form = "json"
    /\ last'.code # 403

\* a Notification that was processed to the end
ProcessedNotification == AdmittedNotification /\ last'.code = 200

HasPair(p) == p.MessageId # NULL /\ p.TopicArn # NULL

PairRows(events, p) ==
    {i \in 1..Len(events) : /\ events[i].sns_message_id = p.MessageId
                            /\ events[i].topic_arn = p.TopicArn}

\* an EmailEvent with the request's non-null (MessageId, TopicArn) is committed
Duplicate == HasPair(Served) /\ PairRows(email_events, Served) # {}

\* the status a notification type stands for
StatusFor(nt) ==
    CASE nt = "Bounce" -> "bounced"
      [] nt = "Complaint" -> "complaint"
      [] nt = "Delivery" -> "delivered"
      [] OTHER -> "unknown"

PermanentSpellings == {"Permanent", "PERMANENT"}

PermanentBounce(m) ==
    m.notificationType = "Bounce" /\ m.bounceType \in PermanentSpellings

\* the addresses a bounce or complaint lists
ListedRecipients(m) == SeqToSet(m.recipients) \ {NULL}

\* the EmailLogs that carry the body's mail.messageId
Matching(logs, m) ==
    IF m.messageId = NULL THEN {}
    ELSE {i \in 1..Len(logs) : logs[i].message_id = m.messageId}

\* ... narrowed to mail.destination when that leaves any
Targets(logs, m) ==
    LET named == {i \in Matching(logs, m) :
                    logs[i].recipient_email \in SeqToSet(m.destination.items)}
    IN IF named # {} THEN named ELSE Matching(logs, m)

LogsUnchanged == email_logs' = email_logs

SuppressionUnchanged ==
    suppressed_emails' = suppressed_emails /\ subscribers' = subscribers

\* exactly one EmailEvent is added, and it refers to no EmailLog
OneUnlinkedEventAdded ==
    /\ Len(email_events') = Len(email_events) + 1
    /\ SubSeq(email_events', 1, Len(email_events)) = email_events
    /\ email_events'[Len(email_events')].email_log_id = NoId

\* C1: handling the same envelope (non-null MessageId and TopicArn) twice in
\* succession leaves exactly one EmailEvent for the pair, and the second
\* handling leaves every table as the first left it
C1_ReplayLeavesOneEventAndSameState ==
    [][(/\ ProcessedNotification
        /\ HasPair(Served)
        /\ last.op = "sns" /\ last.code = 200
        /\ last.req = last'.req)
       => /\ Cardinality(PairRows(email_events', Served)) = 1
          /\ LogsUnchanged
          /\ SuppressionUnchanged]_vars

\* C2: when an EmailEvent with the same non-null (sns_message_id, topic_arn)
\* already exists, the handler changes no EmailLog field, adds no
\* SuppressedEmail and changes no Subscriber
C2_DuplicateSkipsAllMutation ==
    [][(ProcessedNotification /\ Duplicate)
       => (LogsUnchanged /\ SuppressionUnchanged)]_vars

\* C3: every processed, non-duplicate Notification adds exactly one EmailEvent
\* row, however many EmailLogs it correlated to
C3_OneEventPerNotification ==
    [][(ProcessedNotification /\ ~Duplicate)
       => Len(email_events') = Len(email_events) + 1]_vars

\* C4: of two concurrent handlings of the same Notification the one that
\* commits second finds the pair committed and degrades to a no-op: it adds
\* no second EmailEvent for the pair and applies no change again
C4_RaceLoserIsNoOp ==
    [][\A r \in Reqs :
         (/\ inflight[r].busy /\ ~inflight'[r].busy
          /\ inflight[r].res.code = 200
          /\ inflight[r].res.tx.new_events # <<>>
          /\ HasPair(inflight[r].req.payload)
          /\ PairRows(email_events, inflight[r].req.payload) # {})
         => /\ email_events' = email_events
            /\ LogsUnchanged
            /\ SuppressionUnchanged]_vars

\* the body's mail.messageId is absent or matches no EmailLog
Uncorrelated == Matching(email_logs, Body) = {}

\* C5 as stated: a Notification that matches no EmailLog commits exactly one
\* EmailEvent with a null email_log_id, changes no EmailLog and returns 200
\* with the status of its type
C5_UncorrelatedAlwaysAddsOneEvent ==
    [][(AdmittedNotification /\ Uncorrelated)
       => /\ last'.code = 200
          /\ last'.status = StatusFor(Body.notificationType)
          /\ OneUnlinkedEventAdded
          /\ LogsUnchanged]_vars

\* C5 amended: a Notification that matches no EmailLog and whose non-null
\* (MessageId, TopicArn) is not yet recorded commits exactly one EmailEvent
\* with a null email_log_id; recorded or not, it changes no EmailLog and
\* returns 200 with the status of its type
C5_UncorrelatedNewAddsOneEvent ==
    [][(AdmittedNotification /\ Uncorrelated)
       => /\ last'.code = 200
          /\ last'.status = StatusFor(Body.notificationType)
          /\ (~Duplicate => OneUnlinkedEventAdded)
          /\ (Duplicate => email_events' = email_events)
          /\ LogsUnchanged]_vars

\* an uncorrelated complaint was served and left an EmailEvent without a log
C5_Witness ==
    /\ last.op = "sns" /\ last.code = 200 /\ last.status = "complaint"
    /\ last.req.payload.Message.messageId = "m2"
    /\ Matching(email_logs, last.req.payload.Message) = {}
    /\ Len(email_events) = 1
    /\ email_events[1].email_log_id = NoId
    /\ email_events[1].ses_message_id = "m2"

\* C6: after a permanent bounce (any casing) commits, every listed recipient
\* has a SuppressedEmail row for the tenant of each correlated EmailLog and
\* every Subscriber of that tenant and email is "suppressed"
C6_PermanentBounceSuppresses ==
    [][(ProcessedNotification /\ PermanentBounce(Body))
       => \A i \in Targets(email_logs, Body) : \A e \in ListedRecipients(Body) :
            email_logs[i].tenant_id # NULL
            => /\ \E k \in 1..Len(suppressed_emails') :
                    /\ suppressed_emails'[k].tenant_id = email_logs[i].tenant_id
                    /\ suppressed_emails'[k].email = e
               /\ \A k \in 1..Len(subscribers') :
                    (/\ subscribers'[k].tenant_id = email_logs[i].tenant_id
                     /\ subscribers'[k].email = e)
                    => subscribers'[k].status = "suppressed"]_vars

\* C7: after a complaint commits, every complained recipient has a
\* SuppressedEmail row
C7_ComplaintSuppresses ==
    [][(ProcessedNotification /\ Body.notificationType = "Complaint")
       => \A e \in ListedRecipients(Body) :
            \E k \in 1..Len(suppressed_emails') : suppressed_emails'[k].email = e]_vars

\* C8: a bounce that is not permanent (transient, absent), a delivery and a
\* notification of unknown type create no SuppressedEmail row and change no
\* Subscriber status
C8_OnlyPermanentBounceOrComplaintSuppresses ==
    [][(/\ ProcessedNotification
        /\ Body.notificationType # "Complaint"
        /\ ~PermanentBounce(Body))
       => SuppressionUnchanged]_vars

\* a transient bounce was applied to a tenant's log and suppressed nothing
C8_Witness ==
    /\ last.op = "sns" /\ last.code = 200
    /\ last.req.payload.Message.notificationType = "Bounce"
    /\ last.req.payload.Message.bounceType = "Transient"
    /\ \E i \in 1..Len(email_logs) :
         /\ email_logs[i].status = "bounced"
         /\ email_logs[i].bounce_type = "Transient"
         /\ email_logs[i].tenant_id # NULL
    /\ suppressed_emails = <<>>
    /\ \A k \in 1..Len(subscribers) : subscribers[k].status = "active"

\* C9: a permanent bounce naming b@example.com whose messageId matches no
\* EmailLog adds one EmailEvent with a null email_log_id and leaves a
\* SuppressedEmail row for b@example.com
C9_UncorrelatedBounceSuppresses ==
    [][(/\ ProcessedNotification
        /\ ~Duplicate
        /\ PermanentBounce(Body)
        /\ ListedRecipients(Body) = {"b@example.com"}
        /\ Uncorrelated)
       => /\ OneUnlinkedEventAdded
          /\ \E k \in 1..Len(suppressed_emails') :
                suppressed_emails'[k].email = "b@example.com"]_vars

\* C10: a Notification updates the EmailLogs with its mail.messageId whose
\* recipient_email is in mail.destination when there are any, otherwise all
\* EmailLogs with that message_id, and no other EmailLog
C10_UpdatedLogsAreNarrowedTargets ==
    [][ProcessedNotification
       => \A i \in 1..Len(email_logs) :
            IF i \in Targets(email_logs, Body)
            THEN /\ email_logs'[i].status = StatusFor(Body.notificationType)
                 /\ email_logs'[i].last_event_at >= EventTime
            ELSE email_logs'[i] = email_logs[i]]_vars

\* two logs share m1; a delivery naming only a@example.com updated the first
\* and left the second as the send left it
C10_Witness ==
    /\ last.op = "sns" /\ last.code = 200
    /\ last.req.payload.Message.notificationType = "Delivery"
    /\ last.req.payload.Message.destination = DestA
    /\ Len(email_events) = 1
    /\ email_logs[1].message_id = "m1" /\ email_logs[2].message_id = "m1"
    /\ email_logs[1].recipient_email = "a@example.com"
    /\ email_logs[1].status = "delivered"
    /\ email_logs[2] = CampaignLog(email_logs[2].tenant_id, "b@example.com", "m1")

\* the event type a notification type is stored as
EventTypeFor(nt) ==
    CASE nt = "Bounce" -> "bounce"
      [] nt = "Complaint" -> "complaint"
      [] nt = "Delivery" -> "delivery"
      [] nt = "Open" -> "open"
      [] OTHER -> "unknown"

\* the instant the body's timestamp denotes, if it denotes one
CarriesInstant(m) == m.timestamp = TsGood

\* C11: after a processed Notification every correlated EmailLog has the
\* status mapped from the type, the event type as last_event_type and the
\* event timestamp (the current time when absent or unparsable) as
\* last_event_at, and the response carries the mapped status
C11_CorrelatedLogsTakeTheEvent ==
    [][ProcessedNotification
       => /\ last'.status = StatusFor(Body.notificationType)
          /\ \A i \in Targets(email_logs, Body) :
               /\ email_logs'[i].status = StatusFor(Body.notificationType)
               /\ email_logs'[i].last_event_type = EventTypeFor(Body.notificationType)
               /\ email_logs'[i].last_event_at =
                     IF CarriesInstant(Body) THEN EventTime ELSE now]_vars

\* a delivery without a usable timestamp was applied at the current time
C11_Witness ==
    /\ last.op = "sns" /\ last.code = 200 /\ last.status = "delivered"
    /\ last.req.payload.Message.notificationType = "Delivery"
    /\ last.req.payload.Message.timestamp # TsGood
    /\ \E i \in Targets(email_logs, last.req.payload.Message) :
         /\ email_logs[i].status = "delivered"
         /\ email_logs[i].last_event_type = "delivery"
         /\ email_logs[i].last_event_at = now - 1

\* C12: a Notification processed later overwrites the status of a correlated
\* EmailLog even when the timestamp it carries is older than the record's
\* last_event_at
C12_LaterProcessedOlderEventWins ==
    [][ProcessedNotification
       => \A i \in Targets(email_logs, Body) :
            (CarriesInstant(Body) /\ email_logs[i].last_event_at > EventTime)
            => /\ email_logs'[i].status = StatusFor(Body.notificationType)
               /\ email_logs'[i].last_event_at = EventTime]_vars

\* a bounce carrying an older timestamp was processed after a delivery
\* applied at the current time, and the record is bounced
C12_Witness ==
    /\ last.op = "sns" /\ last.code = 200
    /\ last.req.payload.Message.notificationType = "Bounce"
    /\ CarriesInstant(last.req.payload.Message)
    /\ now = FirstNow + 2
    /\ Len(email_events) = 2
    /\ email_events[1].event_type = "delivery" /\ email_events[1].email_log_id = 1
    /\ email_events[2].event_type = "bounce" /\ email_events[2].email_log_id = 1
    /\ email_logs[1].status = "bounced"
    /\ email_logs[1].last_event_at = EventTime

-----------------------------------------------------------------------------
(* The gate in front of the dispatch *)

\* no EmailLog, EmailEvent, SuppressedEmail or Subscriber differs afterwards
StoresUnchanged ==
    LogsUnchanged /\ email_events' = email_events /\ SuppressionUnchanged

\* the envelope's TopicArn is turned away by the configured allowlist
TopicRejected ==
    \/ /\ settings.sns_allowed_topic_arns # {}
       /\ Served.TopicArn \notin settings.sns_allowed_topic_arns
    \/ /\ settings.sns_allowed_topic_arns = {}
       /\ settings.environment # "development"

\* C13: an envelope whose TopicArn is not in the configured allowed set, and
\* every envelope when that set is empty outside development, is answered 403
\* before any certificate or SubscribeURL fetch and before any store changes
C13_TopicRejectedBeforeAnything ==
    [][(SnsStep /\ TopicRejected)
       => /\ last'.code = 403
          /\ last'.cert_fetches = 0
          /\ last'.confirm_fetches = 0
          /\ StoresUnchanged]_vars

\* a confirmation envelope with a good signature from a topic outside the list
C13_Witness ==
    /\ last.op = "sns"
    /\ last.req.payload.Type = "SubscriptionConfirmation"
    /\ last.req.payload.SubscribeURL # NULL
    /\ last.req.payload.TopicArn = TopicOther
    /\ last.req.payload.SigningCertURL = CertUrlOk
    /\ settings.sns_allowed_topic_arns = {TopicOk}
    /\ settings.sns_verify_signatures
    /\ last.code = 403
    /\ last.cert_fetches = 0

\* the hostname is sns.amazonaws.com or sns.<...>.amazonaws.com
SnsHost(url) ==
    LET n == Len(url.hostname)
    IN \/ url.hostname = <<"sns", "amazonaws", "com">>
       \/ /\ n >= 3
          /\ url.hostname[1] = "sns"
          /\ url.hostname[n - 1] = "amazonaws"
          /\ url.hostname[n] = "com"

\* the envelope names a certificate URL on a host that is not an SNS host
ForeignCertHost ==
    Served.SigningCertURL # NoCertUrl /\ ~SnsHost(Served.SigningCertURL)

\* the settings ask for the signature of an envelope to be verified
SignatureDemanded ==
    /\ settings.sns_verify_signatures
    /\ ~(settings.environment = "development"
         /\ settings.sns_skip_signature_verification)

\* C14 as stated: an envelope whose SigningCertURL host is not an allowed SNS
\* host is never classified and changes no store
C14_ForeignHostNeverProcessed ==
    [][(SnsStep /\ ForeignCertHost)
       => (~last'.message_read /\ StoresUnchanged)]_vars

\* C14: when the settings demand signature verification, an envelope whose
\* SigningCertURL host is not an allowed SNS host is never classified and
\* changes no store
C14_ForeignHostNeverProcessedWhenDemanded ==
    [][(SnsStep /\ ForeignCertHost /\ SignatureDemanded)
       => (~last'.message_read /\ StoresUnchanged)]_vars

\* a bounce with a good signature whose certificate is on a foreign host
C14_Witness ==
    /\ last.op = "sns"
    /\ last.req.payload.Type = "Notification"
    /\ last.req.payload.Message.form = "json"
    /\ last.req.payload.TopicArn = TopicOk
    /\ last.req.payload.SignatureVersion = "1"
    /\ last.req.payload.Signature = SigGood
    /\ last.req.payload.SigningCertURL = CertUrlEvil
    /\ last.req.net = "ok"
    /\ settings.sns_verify_signatures
    /\ settings.environment = "production"
    /\ last.code = 403
    /\ ~last.message_read

\* the verifier's answer for the envelope being served
Checked == VerifySnsSignature(Served, last'.req.net)

\* what follows a verifier that was required and returned unverified
RejectedUnverified ==
    /\ last'.code = 403
    /\ last'.confirm_fetches = 0
    /\ ~last'.message_read
    /\ StoresUnchanged

\* C15 as stated: the verifier is invoked for every envelope that reaches it
\* unless environment is development and the skip flag is set; required and
\* unverified is a 403 before dispatch
C15_VerifierInvokedUnlessDevSkip ==
    [][(SnsStep /\ ~TopicRejected)
       => LET skipped == /\ settings.environment = "development"
                         /\ settings.sns_skip_signature_verification
          IN /\ last'.verifier_calls = IF skipped THEN 0 ELSE 1
             /\ (~skipped /\ ~Checked.raised /\ ~Checked.verified)
                => RejectedUnverified]_vars

\* C15: the verifier is invoked for every envelope that passed the topic check
\* when sns_verify_signatures is set, unless environment is development and
\* the skip flag is set, and is not invoked otherwise; when it is required and
\* returns unverified the call is answered 403 before dispatch, with no
\* SubscribeURL fetch and no store change
C15_VerifierInvokedWhenDemanded ==
    [][(SnsStep /\ ~TopicRejected)
       => /\ last'.verifier_calls = IF SignatureDemanded THEN 1 ELSE 0
          /\ (SignatureDemanded /\ ~Checked.raised /\ ~Checked.verified)
             => RejectedUnverified]_vars

\* a confirmation envelope whose signature does not verify
C15_Witness ==
    /\ last.op = "sns"
    /\ last.req.payload.Type = "SubscriptionConfirmation"
    /\ last.req.payload.SubscribeURL # NULL
    /\ last.req.payload.SigningCertURL = CertUrlOk
    /\ last.req.payload.Signature = SigGood
    /\ last.req.net = "verify_failed"
    /\ settings.sns_verify_signatures
    /\ ~settings.sns_skip_signature_verification
    /\ last.verifier_calls = 1
    /\ last.cert_fetches = 1
    /\ last.confirm_fetches = 0
    /\ last.code = 403

\* the envelope got through the topic check and, where demanded, the verifier
PassedChecks ==
    ~TopicRejected /\ (SignatureDemanded => Checked.verified)

\* the GET of the SubscribeURL is answered
GetSucceeds == last'.req.net \notin {"fetch_failed", "confirm_failed"}

\* C17: a SubscriptionConfirmation that passed the topic and signature checks
\* causes exactly one GET of its SubscribeURL and is answered confirmed when
\* the GET succeeds and failed otherwise; an UnsubscribeConfirmation is only
\* acknowledged; neither changes any store
C17_ConfirmationsFetchOnceAndTouchNothing ==
    [][(SnsStep /\ PassedChecks)
       => /\ (Served.Type = "SubscriptionConfirmation" /\ Served.SubscribeURL # NULL)
             => /\ last'.code = 200
                /\ last'.confirm_fetches = 1
                /\ last'.status = IF GetSucceeds THEN "confirmed" ELSE "failed"
                /\ StoresUnchanged
          /\ Served.Type = "UnsubscribeConfirmation"
             => /\ last'.code = 200
                /\ last'.status = "ok"
                /\ last'.confirm_fetches = 0
                /\ StoresUnchanged]_vars

\* a verified confirmation envelope whose SubscribeURL could not be fetched
C17_Witness ==
    /\ last.op = "sns"
    /\ last.req.payload.Type = "SubscriptionConfirmation"
    /\ last.req.payload.SubscribeURL # NULL
    /\ last.req.net = "confirm_failed"
    /\ settings.sns_verify_signatures
    /\ settings.environment = "production"
    /\ last.signature_verified
    /\ last.confirm_fetches = 1
    /\ last.status = "failed"

\* the response code the envelope calls for
ExpectedCode ==
    IF TopicRejected \/ (SignatureDemanded /\ ~Checked.verified) THEN 403
    ELSE IF Served.Type = "SubscriptionConfirmation"
         THEN (IF Served.SubscribeURL = NULL THEN 400 ELSE 200)
    ELSE IF Served.Type = "UnsubscribeConfirmation" THEN 200
    ELSE IF Served.Type # "Notification" THEN 400
    ELSE IF Body.form # "json" THEN 400
    ELSE 200

\* C18: topic and signature failures are answered 403; an unsupported Type, a
\* missing SubscribeURL, a missing Message or a Message that is not JSON are
\* answered 400; every processed outcome is answered 200; a 403 or 400 leaves
\* all stores unchanged
C18_ResponseCodes ==
    [][SnsStep
       => /\ last'.code = ExpectedCode
          /\ last'.code \in {400, 403} => StoresUnchanged]_vars

-----------------------------------------------------------------------------
(* verify_sns_signature *)

\* https, an SNS host and the certificate path prefix
TrustedCertUrl(url) ==
    /\ url.scheme = "https"
    /\ SnsHost(url)
    /\ Len(url.path) >= 1
    /\ url.path[1] = "/SimpleNotificationService-"

\* C19: verify_sns_signature never raises, and it answers verified only when
\* the version is supported, the certificate URL is allowed, the fetch
\* succeeded, the signature decoded, the public key was extracted and the
\* signature check succeeded
C19_VerifierTotalAndFailsClosed ==
    last.op = "verify"
    => /\ ~last.raised
       /\ last.verified
          => /\ last.req.payload.SignatureVersion = "1"
             /\ TrustedCertUrl(last.req.payload.SigningCertURL)
             /\ last.req.payload.Signature = SigGood
             /\ last.req.net \in {"ok", "confirm_failed"}

\* C20: verify_sns_signature fetches the certificate only after the
\* SignatureVersion check and the certificate URL check (https, allowed host,
\* allowed path) have passed; an envelope failing either causes no fetch
C20_NoFetchBeforeChecks ==
    (last.op = "verify" /\ last.fetches > 0)
    => /\ last.req.payload.SignatureVersion = "1"
       /\ TrustedCertUrl(last.req.payload.SigningCertURL)

\* a fetch was attempted for an allowed certificate URL, and one was not for
\* a certificate under another path
C20_Witness ==
    /\ last.op = "verify"
    /\ \/ /\ last.req.payload.SigningCertURL = CertUrlRoot
          /\ last.req.net = "fetch_failed"
          /\ last.fetches = 1
       \/ /\ last.req.payload.SigningCertURL = CertUrlOtherPath
          /\ last.req.payload.SignatureVersion = "1"
          /\ last.req.payload.Signature = SigGood
          /\ last.fetches = 0

-----------------------------------------------------------------------------
(* All or nothing *)

\* request r ends in this step
Ends(r) == inflight[r].busy /\ ~inflight'[r].busy

\* everything the call of r did is in the tables after the step
AllPresent(r) ==
    LET tx == inflight[r].res.tx
        grown(old, new, added) ==
            /\ Len(new) = Len(old) + Len(added)
            /\ SubSeq(new, Len(old) + 1, Len(new)) = added
    IN /\ \A i \in DOMAIN tx.updated :
            \A f \in DOMAIN tx.updated[i] :
                tx.updated[i][f] # tx.loaded[i][f]
                => email_logs'[i][f] = tx.updated[i][f]
       /\ grown(email_events, email_events', tx.new_events)
       /\ grown(suppressed_emails, suppressed_emails', tx.new_suppressed)
       /\ \A i \in tx.dirty_subscribers : subscribers'[i].status = "suppressed"

\* C16: a call that fails commits nothing, and every step that other
\* transactions can see either changes no store or is the end of one call,
\* all of whose EmailLog updates, suppression inserts, subscriber flips and
\* EmailEvents are then present
C16_AllOrNothing ==
    [][/\ (last'.op = "sns" /\ last'.code = 500) => StoresUnchanged
       /\ StoresUnchanged \/ \E r \in Reqs : Ends(r) /\ AllPresent(r)]_vars

\* a permanent bounce that correlated to an EmailLog failed, and left nothing
C16_Witness ==
    /\ last.op = "sns"
    /\ last.code = 500
    /\ last.message_read
    /\ last.req.payload.Message.notificationType = "Bounce"
    /\ last.req.payload.Message.bounceType = "Permanent"
    /\ Matching(email_logs, last.req.payload.Message) # {}
    /\ email_events = <<>>
    /\ suppressed_emails = <<>>
    /\ \A i \in 1..Len(email_logs) : email_logs[i].status = "sent"

-----------------------------------------------------------------------------
(* _build_string_to_sign on its own: one call per behaviour. Text is a      *)
(* sequence of pieces, the newline being a piece of its own                 *)

Newline == "\n"

\* the envelopes signed: every field absent (None) or present, Subject also
\* present and empty
SignPayloads ==
    [Message : {NULL, "body"}, MessageId : {NULL, "s1"},
     Subject : {NULL, "", "subject"}, Timestamp : {NULL, TsGood},
     TopicArn : {NULL, TopicOk},
     Type : {NULL, "Notification", "SubscriptionConfirmation",
             "UnsubscribeConfirmation"},
     SubscribeURL : {NULL, "https://sns/confirm"}, Token : {NULL, "token"}]

\* lines 38-43: the name and the value of every field that is not None
RECURSIVE SignParts(_, _)
SignParts(payload, fields) ==
    IF fields = <<>> THEN <<>>
    ELSE LET field == Head(fields)
             value == payload[field]
         IN IF value = NULL THEN SignParts(payload, Tail(fields))
            ELSE <<field, value>> \o SignParts(payload, Tail(fields))

\* "\n".join(parts)
RECURSIVE JoinNewline(_)
JoinNewline(parts) ==
    IF parts = <<>> THEN <<>>
    ELSE IF Len(parts) = 1 THEN parts
    ELSE <<Head(parts), Newline>> \o JoinNewline(Tail(parts))

\* _build_string_to_sign
BuildStringToSign(payload) ==
    LET fields == IF payload.Type = "Notification"
                  THEN <<"Message", "MessageId", "Subject", "Timestamp",
                         "TopicArn", "Type">>
                  ELSE <<"Message", "MessageId", "SubscribeURL", "Timestamp",
                         "Token", "TopicArn", "Type">>
    IN JoinNewline(SignParts(payload, fields)) \o <<Newline>>

SignCall ==
    /\ last.op = "none"
    /\ \E payload \in SignPayloads :
         last' = [op |-> "sign", req |-> payload,
                  result |-> BuildStringToSign(payload)]
    /\ UNCHANGED <<rate_limiter, monotonic, campaigns, campaign_run, settings, email_logs, email_events, suppressed_emails,
                   subscribers, now, inflight, email_queue>>

NextSign == SignCall

SpecSign == InitGate /\ [][NextSign]_vars

\* the field order the provider defines for the envelope's type
SigningOrder(payload) ==
    IF payload.Type = "Notification"
    THEN <<"Message", "MessageId", "Subject", "Timestamp", "TopicArn", "Type">>
    ELSE <<"Message", "MessageId", "SubscribeURL", "Timestamp", "Token",
           "TopicArn", "Type">>

\* name, newline, value, newline for each present field, nothing for the rest
RECURSIVE Canonical(_, _)
Canonical(payload, order) ==
    IF order = <<>> THEN <<>>
    ELSE (IF payload[Head(order)] = NULL THEN <<>>
          ELSE <<Head(order), Newline, payload[Head(order)], Newline>>)
         \o Canonical(payload, Tail(order))

\* C21: the string to sign is, in the order of the envelope's type, the name,
\* a newline, the value and a newline of every present field, and nothing for
\* an absent field
C21_StringToSignIsCanonical ==
    last.op = "sign"
    => last.result = Canonical(last.req, SigningOrder(last.req))

-----------------------------------------------------------------------------
(* Fetches *)

-----------------------------------------------------------------------------
(* The suppression list *)

\* C23: in every reachable state there is at most one SuppressedEmail row per
\* (tenant_id, email) pair
C23_OneSuppressionPerTenantEmail ==
    \A i, j \in 1..Len(suppressed_emails) :
        (/\ suppressed_emails[i].tenant_id = suppressed_emails[j].tenant_id
         /\ suppressed_emails[i].email = suppressed_emails[j].email)
        => i = j

\* rows i and j are for the same (tenant_id, email) pair
SamePair(a, b) == a.tenant_id = b.tenant_id /\ a.email = b.email

\* C24: a reconciliation leaves every existing SuppressedEmail row as it was
\* and in its place, and adds no row for a (tenant, email) pair that already
\* had one
C24_ExistingSuppressionUntouched ==
    [][SnsStep
       => /\ Len(suppressed_emails') >= Len(suppressed_emails)
          /\ SubSeq(suppressed_emails', 1, Len(suppressed_emails)) = suppressed_emails
          /\ \A k \in (Len(suppressed_emails) + 1)..Len(suppressed_emails') :
               \A i \in 1..Len(suppressed_emails) :
                   ~SamePair(suppressed_emails'[k], suppressed_emails[i])]_vars

\* a complaint that names a recipient suppressed for a bounce was processed
C24_Witness ==
    /\ last.op = "sns"
    /\ last.code = 200
    /\ last.req.payload.Message.form = "json"
    /\ last.req.payload.Message.notificationType = "Complaint"
    /\ last.req.payload.Message.messageId = "m1"
    /\ last.req.payload.Message.recipients = <<"a@example.com">>
    /\ email_logs[1].tenant_id = "T1"
    /\ email_logs[1].status = "complaint"
    /\ \E i \in 1..Len(suppressed_emails) :
          suppressed_emails[i] = SuppressedEmail("T1", "a@example.com", "bounce")
    /\ \A i \in 1..Len(suppressed_emails) :
          suppressed_emails[i] # SuppressedEmail("T1", "a@example.com", "complaint")

-----------------------------------------------------------------------------
(* A store error inside _add_suppression: one request per behaviour.        *)
(* The error is raised by one of the two queries of the call numbered       *)
(* fault.call and caught by the except of lines 107-108. Whether the        *)
(* session's transaction still accepts statements afterwards is the         *)
(* store's choice (a statement the server failed ends a PostgreSQL          *)
(* transaction; an error raised by the driver before sending does not):     *)
(* fault.aborts. Nothing in the handler rolls back or sets a savepoint.     *)

MaxSuppressionCalls == 4

Faults ==
    [call : 1..MaxSuppressionCalls,
     stage : {"suppressed_query", "subscriber_query"},
     aborts : BOOLEAN]

NoPair == <<>>

\* lines 240-242 as the list of (log.tenant_id, recipient_email) in loop order
RECURSIVE SuppressionCalls(_, _, _)
SuppressionCalls(db, ids, recipients) ==
    IF ids = <<>> THEN <<>>
    ELSE [k \in 1..Len(recipients) |->
             [tenant_id |-> db.email_logs[Head(ids)].tenant_id,
              email |-> recipients[k]]]
         \o SuppressionCalls(db, Tail(ids), recipients)

\* the calls of _add_suppression one after the other; st.n counts them,
\* st.broken says that the transaction no longer accepts statements
RECURSIVE SuppressWithStoreError(_, _, _, _, _)
SuppressWithStoreError(db, st, calls, reason, fault) ==
    IF calls = <<>> THEN st
    ELSE LET c == Head(calls)
             k == st.n + 1
             added == AddSuppression(db, st.tx, c.tenant_id, c.email, reason)
             after ==
                 IF c.tenant_id = NULL THEN [st EXCEPT !.n = k]
                 ELSE IF st.broken THEN [st EXCEPT !.n = k]
                 ELSE IF fault.call = k /\ fault.stage = "suppressed_query"
                 THEN [st EXCEPT !.n = k, !.hit = TRUE, !.broken = fault.aborts,
                                 !.failed = <<c.tenant_id, c.email>>]
                 ELSE IF added = st.tx THEN [st EXCEPT !.n = k]
                 ELSE IF fault.call = k /\ fault.stage = "subscriber_query"
                 THEN [st EXCEPT !.n = k, !.hit = TRUE, !.broken = fault.aborts,
                                 !.failed = <<c.tenant_id, c.email>>,
                                 !.tx.new_suppressed =
                                     Append(@, SuppressedEmail(c.tenant_id, c.email, reason))]
                 ELSE [st EXCEPT !.n = k, !.tx = added]
         IN CHOOSE done \in {SuppressWithStoreError(db, s, rest, reason, fault) :
                              s \in {after}, rest \in {Tail(calls)}} : TRUE

\* lines 160-271 with the store error: after a transaction that no longer
\* accepts statements, the query of _persist_event or the flush of db.commit()
\* raises and the request is answered 500 with nothing committed
ReconcileWithStoreError(db, clock, payload, signature_verified, fault) ==
    LET ev == Classify(payload.Message)
        idset == CorrelatedLogs(db.email_logs, ev.ses_message_id, ev.destinations)
        ids == SortedIds(idset)
        tx0 == [EmptyTx EXCEPT
                  !.ids = ids,
                  !.loaded = [i \in idset |-> db.email_logs[i]],
                  !.updated = [i \in idset |-> UpdateLog(db.email_logs[i], ev, clock)]]
        st0 == [tx |-> tx0, n |-> 0, broken |-> FALSE, hit |-> FALSE, failed |-> NoPair]
        st1 == IF idset # {} /\ ev.notification_type \in {"bounce", "complaint"}
                  /\ ShouldSuppress(ev)
               THEN CHOOSE done \in
                        {SuppressWithStoreError(db, st0, calls, ev.notification_type, fault) :
                            calls \in {SuppressionCalls(db, ids, SuppressionRecipients(ev))}} :
                        TRUE
               ELSE st0
        row == EmailEvent(NoId, ev.ses_message_id, payload.MessageId, ev.event_type,
                          payload.TopicArn, signature_verified)
    IN CHOOSE res \in
           {IF st.broken
            THEN [tx |-> EmptyTx, code |-> 500, status |-> "Internal Server Error",
                  store_error |-> TRUE, failed |-> st.failed]
            ELSE [tx |-> IF idset # {} THEN PersistForLogs(db, st.tx, ids, row)
                         ELSE PersistEvent(db, st.tx, row),
                  code |-> 200, status |-> ev.new_status,
                  store_error |-> st.hit, failed |-> st.failed] : st \in {st1}} : TRUE

\* handle_sns_notification with the store error
HandleWithStoreError(cfg, db, clock, payload, net, fault) ==
    CHOOSE res \in
        {IF plain.code = 200 /\ plain.message_read
         THEN ReconcileWithStoreError(db, clock, payload, plain.signature_verified, fault)
              @@ plain
         ELSE plain @@ [store_error |-> FALSE, failed |-> NoPair] :
            plain \in {HandleSnsNotification(cfg, db, clock, payload, net)}} : TRUE

\* bounces and complaints that name two recipients, and a delivery
FaultMessages ==
    {Message("json", nt, "m1", dest, IF nt = "Bounce" THEN "Permanent" ELSE NULL,
             NULL, rec, TsGood, NULL) :
        nt \in {"Bounce", "Complaint"}, dest \in {DestAB, NoDestination},
        rec \in {<<>>, <<"a@example.com", "b@example.com">>,
                 <<"b@example.com", "b@example.com">>}}
    \cup
    {Message("json", "Delivery", "m1", DestAB, NULL, NULL, <<>>, TsGood, "250 Ok")}

FaultRequests ==
    {[payload |-> Envelope("Notification", TopicOk, id, "1", SigGood, CertUrlOk,
                           NULL, m),
      net |-> "ok"] : id \in {"s1", NULL}, m \in FaultMessages}

FaultyCall ==
    /\ last.op = "none"
    /\ \A r \in Reqs : inflight[r] = Idle
    /\ \E req \in FaultRequests, fault \in Faults :
         \E res \in {HandleWithStoreError(settings, Db, now, req.payload, req.net, fault)} :
            /\ SetDb(Commit(Db, res.tx))
            /\ last' = Answered("sns", req, res)
    /\ now' = now + 1
    /\ UNCHANGED <<rate_limiter, monotonic, campaigns, campaign_run, settings, inflight, email_queue>>

NextFault == FaultyCall

SpecFault == Init /\ [][NextFault]_vars

\* the addresses a suppression-worthy event asks to suppress
NamedForSuppression(m) ==
    IF ListedRecipients(m) # {} THEN ListedRecipients(m)
    ELSE SeqToSet(m.destination.items)

\* C25: a store error while deriving the suppression of one recipient does
\* not abort the call: it is answered 200, the correlated EmailLogs carry the
\* new status, the EmailEvent is committed, and every other recipient of the
\* event has its suppression entry
C25_StoreErrorIsContained ==
    [][(SnsStep /\ last'.store_error)
       => /\ last'.code = 200
          /\ \A i \in Targets(email_logs, Body) :
                email_logs'[i].status = StatusFor(Body.notificationType)
          /\ Len(email_events') > Len(email_events)
          /\ \A i \in Targets(email_logs, Body), e \in NamedForSuppression(Body) :
                (email_logs[i].tenant_id # NULL
                 /\ <<email_logs[i].tenant_id, e>> # last'.failed)
                => \E k \in 1..Len(suppressed_emails') :
                      /\ suppressed_emails'[k].tenant_id = email_logs[i].tenant_id
                      /\ suppressed_emails'[k].email = e]_vars

-----------------------------------------------------------------------------
(* What reconciliation leaves alone in email_logs *)

\* C26: a call of handle_sns_notification creates no EmailLog and deletes
\* none, and leaves the id, tenant_id, campaign_id, subscriber_id and
\* recipient_email of every EmailLog as they were
C26_LogsOnlyUpdated ==
    [][SnsStep
       => /\ Len(email_logs') = Len(email_logs)
          /\ \A i \in 1..Len(email_logs) :
                /\ email_logs'[i].tenant_id = email_logs[i].tenant_id
                /\ email_logs'[i].campaign_id = email_logs[i].campaign_id
                /\ email_logs'[i].subscriber_id = email_logs[i].subscriber_id
                /\ email_logs'[i].recipient_email = email_logs[i].recipient_email]_vars

\* a bounce was applied to the first EmailLog
C26_Witness ==
    /\ last.op = "sns"
    /\ last.code = 200
    /\ last.req.payload.Message.notificationType = "Bounce"
    /\ email_logs[1].status = "bounced"
    /\ email_logs[1].subscriber_id = 1
    /\ Len(email_logs) = 2

-----------------------------------------------------------------------------
(* The event type *)

\* the lowercased notificationType when it is a known one, else "unknown"
KnownEventType(nt) ==
    CASE nt \in {"Bounce", "bounce"} -> "bounce"
      [] nt \in {"Complaint", "complaint"} -> "complaint"
      [] nt \in {"Delivery", "delivery"} -> "delivery"
      [] OTHER -> "unknown"

\* C29: the event type recorded on the correlated EmailLogs and on the new
\* EmailEvents is the lowercased notificationType when that is bounce,
\* complaint or delivery, and "unknown" when it is absent or anything else
C29_EventTypeKnownOrUnknown ==
    [][ProcessedNotification
       => /\ \A i \in Targets(email_logs, Body) :
                email_logs'[i].last_event_type = KnownEventType(Body.notificationType)
          /\ \A k \in (Len(email_events) + 1)..Len(email_events') :
                email_events'[k].event_type = KnownEventType(Body.notificationType)]_vars

-----------------------------------------------------------------------------
(* The outbound side: campaign runs, test sends and the worker's jobs       *)

\* number of steps of one behaviour of the outbound side
MaxSends == 3

\* an EmailLog id handed out in a transaction that was rolled back, on a
\* store that never hands a rolled-back id out again
RolledBackId == -1

\* an EmailLog row with every column the outbound side writes
SendLog(t, c, sub, r, m, st) ==
    [tenant_id |-> t, campaign_id |-> c, subscriber_id |-> sub,
     recipient_email |-> r, message_id |-> m, provider_job_id |-> NoId,
     status |-> st, last_event_type |-> NULL, last_event_at |-> NoTime,
     last_smtp_response |-> NULL, bounce_type |-> NULL,
     bounce_subtype |-> NULL, complaint_type |-> NULL]

\* queue.enqueue(process_email_job, kwargs=...): the job, its id is its place
\* (done: an execution has ended; attempts: executions started; accepted:
\* the MessageId SES returned to the execution under way; marked: the
\* message_id the last _mark_log_sent committed)
Job(email_log_id, recipient) ==
    [email_log_id |-> email_log_id, recipient |-> recipient, done |-> FALSE,
     attempts |-> 0, accepted |-> NULL, marked |-> NULL]

\* the MessageId SES answers to the send of job k (the test send: k = 0)
SesMessageId(k) == "m" \o ToString(k)

\* ... and to a later execution of the same job
SendId(k, job) ==
    IF job.attempts = 0 THEN SesMessageId(k)
    ELSE SesMessageId(k) \o "r" \o ToString(job.attempts)

Campaigns == {[id |-> 1, tenant_id |-> "T1"], [id |-> 2, tenant_id |-> "T2"]}

\* variant: the suppression list is not consulted
LoadRecipientsActiveOnly(db, tenant_id) ==
    SortedIds({i \in 1..Len(db.subscribers) :
                 /\ db.subscribers[i].tenant_id = tenant_id
                 /\ db.subscribers[i].status = "active"})

\* variant: a query that yields a subscriber once per list it is on
LoadRecipientsRepeated(db, tenant_id) ==
    LET ids == SortedIds({i \in 1..Len(db.subscribers) :
                            /\ db.subscribers[i].tenant_id = tenant_id
                            /\ db.subscribers[i].status = "active"
                            /\ \A j \in 1..Len(db.suppressed_emails) :
                                  \/ db.suppressed_emails[j].tenant_id # tenant_id
                                  \/ db.suppressed_emails[j].email # db.subscribers[i].email})
    IN ids \o ids

\* load_recipients: the tenant's active subscribers whose email is not in the
\* tenant's suppression list
LoadRecipients(db, tenant_id) ==
    LET suppressed == {db.suppressed_emails[j].email :
                          j \in {k \in 1..Len(db.suppressed_emails) :
                                    db.suppressed_emails[k].tenant_id = tenant_id}}
    IN SortedIds({i \in 1..Len(db.subscribers) :
                    /\ db.subscribers[i].tenant_id = tenant_id
                    /\ db.subscribers[i].status = "active"
                    /\ db.subscribers[i].email \notin suppressed})

\* enqueue_bulk_emails: per subscriber an EmailLog is added and flushed, the
\* job is enqueued, the job id is written to the row; fail_at numbers the
\* enqueue_email_job call that raises (0: none does)
RECURSIVE EnqueueBulkEmails(_, _, _, _, _)
EnqueueBulkEmails(db, run, campaign, subs, fail_at) ==
    IF subs = <<>> \/ run.failed THEN run
    ELSE LET subscriber == db.subscribers[Head(subs)]
             id == Len(run.email_logs) + 1
             row == SendLog(campaign.tenant_id, campaign.id, Head(subs),
                            subscriber.email, NULL, "queued")
             job_id == Len(run.email_queue) + 1
             after ==
                 IF fail_at = run.calls + 1
                 THEN [run EXCEPT !.calls = @ + 1, !.failed = TRUE]
                 ELSE [run EXCEPT
                         !.calls = @ + 1,
                         !.email_logs = Append(@, [row EXCEPT !.provider_job_id = job_id]),
                         !.email_queue = Append(@, Job(id, subscriber.email)),
                         !.enqueued = @ + 1]
         IN EnqueueBulkEmails(db, after, campaign, Tail(subs), fail_at)

\* lines 23 to 26 of run_campaign and the exit of session_scope, for the
\* recipients loaded at line 22: commit at the end, rollback when something
\* raised; the jobs enqueued before stay in the queue, and reuses_ids says
\* whether the store hands the rolled-back ids out again (SQLite does, a
\* PostgreSQL sequence does not)
EnqueueAndCommit(db, queue, campaign, subs, fail_at, reuses_ids) ==
    LET run0 == [email_logs |-> db.email_logs, email_queue |-> queue,
                 calls |-> 0, enqueued |-> 0, failed |-> FALSE]
        run == EnqueueBulkEmails(db, run0, campaign, subs, fail_at)
    IN IF run.failed
       THEN [code |-> 500, enqueued |-> 0, email_logs |-> db.email_logs,
             email_queue |->
                 [k \in 1..Len(run.email_queue) |->
                     IF k > Len(queue) /\ ~reuses_ids
                     THEN [run.email_queue[k] EXCEPT !.email_log_id = RolledBackId]
                     ELSE run.email_queue[k]]]
       ELSE [code |-> 200, enqueued |-> run.enqueued, email_logs |-> run.email_logs,
             email_queue |-> run.email_queue]

\* run_campaign inside session_scope, the rows and the jobs it leaves
RunCampaign(db, queue, campaign, fail_at, reuses_ids) ==
    EnqueueAndCommit(db, queue, campaign, LoadRecipients(db, campaign.tenant_id),
                     fail_at, reuses_ids)

\* a session on the campaigns table: the committed statuses and the status
\* the session has set on its Campaign object (NULL: none)
CampaignSession(table) == [committed |-> table, pending |-> NULL]

\* variant: the status is committed as soon as it is set
UpdateCampaignStatusAndCommit(tx, campaign_id, status) ==
    [tx EXCEPT !.committed[campaign_id] = status, !.pending = status]

\* update_campaign_status: campaign.status = status; db.add(campaign)
UpdateCampaignStatus(tx, campaign_id, status) ==
    [tx EXCEPT !.pending = status]

\* the exit of session_scope: session.commit() writes the status the session
\* holds, session.rollback() drops it
CloseCampaignSession(tx, campaign_id, raised) ==
    IF raised \/ tx.pending = NULL THEN tx.committed
    ELSE [tx.committed EXCEPT ![campaign_id] = tx.pending]

\* line 65: error_message[:1024]
MaxResponseLen == 1024

\* str(exc) of the RuntimeError SESService.send_email raises
SesErrorText == "SES send_email failed"

RECURSIVE Doubled(_, _)
Doubled(text, n) == IF n = 0 THEN text ELSE Doubled(text \o text, n - 1)

\* str(exc) of an error of the store: the statement and its parameters are
\* part of it, well over 1024 characters here
StoreErrorText == Doubled("(psycopg.OperationalError) server closed the connection ....", 5)

\* text[:n]
FirstChars(text, n) == IF Len(text) <= n THEN text ELSE SubSeq(text, 1, n)

\* variant: the row is marked only while it is still queued
MarkLogSentOnce(logs, email_log_id, message_id, clock) ==
    [i \in 1..Len(logs) |->
        IF i = email_log_id /\ logs[i].status = "queued"
        THEN [logs[i] EXCEPT !.message_id = message_id, !.status = "sent",
                             !.last_event_type = "send", !.last_event_at = clock]
        ELSE logs[i]]

\* variant: the provider's id is not written to the row
MarkLogSentNoId(logs, email_log_id, message_id, clock) ==
    [i \in 1..Len(logs) |->
        IF i = email_log_id
        THEN [logs[i] EXCEPT !.status = "sent",
                             !.last_event_type = "send", !.last_event_at = clock]
        ELSE logs[i]]

\* _mark_log_sent: the row with that id, if there is one
MarkLogSent(logs, email_log_id, message_id, clock) ==
    [i \in 1..Len(logs) |->
        IF i = email_log_id
        THEN [logs[i] EXCEPT !.message_id = message_id, !.status = "sent",
                             !.last_event_type = "send", !.last_event_at = clock]
        ELSE logs[i]]

\* _mark_log_failed
MarkLogFailed(logs, email_log_id, error_message, clock) ==
    [i \in 1..Len(logs) |->
        IF i = email_log_id
        THEN [logs[i] EXCEPT !.status = "failed", !.last_event_type = "send_failed",
                             !.last_event_at = clock,
                             !.last_smtp_response =
                                 FirstChars(error_message, MaxResponseLen)]
        ELSE logs[i]]

\* what the store answers to the session_scope of _mark_log_sent and of
\* _mark_log_failed: both commit, the first raises and the second commits,
\* or both raise
WorkerStores == {"ok", "sent_fails", "fails"}

\* lines 74-81 once send_email has returned message_id: an exception of
\* _mark_log_sent is caught by the same handler as one of send_email
AfterSend(logs, job, message_id, store, clock) ==
    IF job.email_log_id = NoId THEN logs
    ELSE IF store = "ok" THEN MarkLogSent(logs, job.email_log_id, message_id, clock)
    ELSE IF store = "sent_fails"
    THEN MarkLogFailed(logs, job.email_log_id, StoreErrorText, clock)
    ELSE logs

\* lines 78-81 when send_email raised
AfterSendError(logs, job, store, clock) ==
    IF job.email_log_id = NoId THEN logs
    ELSE IF store = "fails" THEN logs
    ELSE MarkLogFailed(logs, job.email_log_id, SesErrorText, clock)

\* process_email_job for job k: the send through SES, then the row is marked
ProcessEmailJob(logs, k, job, provider, store, clock) ==
    IF provider = "ok" THEN AfterSend(logs, job, SendId(k, job), store, clock)
    ELSE AfterSendError(logs, job, store, clock)

\* what process_email_job hands back to the queue: the message id, or the
\* exception it lets through
JobResult(job, message_id, provider, store) ==
    LET stored == job.email_log_id = NoId \/ store = "ok"
    IN [provider |-> provider, store |-> store, message_id |-> message_id,
        returned |-> IF provider = "ok" /\ stored THEN message_id ELSE NULL,
        raised |-> ~(provider = "ok" /\ stored)]

\* what the rate limiter, SES, the store and the queue answer to one test send
\* (all of them succeed, or one of them fails)
AllOk == [rate |-> "ok", provider |-> "ok", store |-> "ok", queue |-> "ok"]

SendOutcomes ==
    {AllOk, [AllOk EXCEPT !.rate = "limited"], [AllOk EXCEPT !.provider = "fail"],
     [AllOk EXCEPT !.store = "fail"], [AllOk EXCEPT !.queue = "fail"]}

SendResponse(code, message_id, queued, logs, queue, steps) ==
    [code |-> code, message_id |-> message_id, queued |-> queued,
     email_logs |-> logs, email_queue |-> queue, steps |-> steps]

\* variant: a failure to persist the EmailLog fails the request
SendTestEmailStrict(db, queue, request, out) ==
    IF out.rate = "limited" THEN SendResponse(429, NULL, FALSE, db.email_logs, queue, <<>>)
    ELSE IF request.enqueue
    THEN (IF out.store = "fail"
          THEN SendResponse(500, NULL, FALSE, db.email_logs, queue, <<"commit_failed">>)
          ELSE LET row == SendLog(NULL, NoId, NoId, request.recipient, NULL, "queued")
                   id == Len(db.email_logs) + 1
                   job_id == Len(queue) + 1
               IN IF out.queue = "fail"
                  THEN SendResponse(500, NULL, FALSE, Append(db.email_logs, row), queue,
                                    <<"commit", "enqueue_failed">>)
                  ELSE SendResponse(200, job_id, TRUE,
                                    Append(db.email_logs,
                                           [row EXCEPT !.provider_job_id = job_id]),
                                    Append(queue, Job(id, request.recipient)),
                                    <<"commit", "enqueue", "commit">>))
    ELSE IF out.provider = "fail"
    THEN SendResponse(500, NULL, FALSE, db.email_logs, queue, <<"send_failed">>)
    ELSE IF out.store = "fail"
    THEN SendResponse(500, NULL, FALSE, db.email_logs, queue, <<"send", "commit_failed">>)
    ELSE SendResponse(200, SesMessageId(0), FALSE,
                      Append(db.email_logs,
                             SendLog(NULL, NoId, NoId, request.recipient,
                                     SesMessageId(0), "sent")),
                      queue, <<"send", "commit">>)

\* send_test_email; steps lists what it did to SES, the store and the queue
SendTestEmail(db, queue, request, out) ==
    IF out.rate = "limited" THEN SendResponse(429, NULL, FALSE, db.email_logs, queue, <<>>)
    ELSE IF request.enqueue
    THEN (IF out.store = "fail"
          THEN SendResponse(500, NULL, FALSE, db.email_logs, queue, <<"commit_failed">>)
          ELSE LET row == SendLog(NULL, NoId, NoId, request.recipient, NULL, "queued")
                   id == Len(db.email_logs) + 1
                   job_id == Len(queue) + 1
               IN IF out.queue = "fail"
                  THEN SendResponse(500, NULL, FALSE, Append(db.email_logs, row), queue,
                                    <<"commit", "enqueue_failed">>)
                  ELSE SendResponse(200, job_id, TRUE,
                                    Append(db.email_logs,
                                           [row EXCEPT !.provider_job_id = job_id]),
                                    Append(queue, Job(id, request.recipient)),
                                    <<"commit", "enqueue", "commit">>))
    ELSE IF out.provider = "fail"
    THEN SendResponse(500, NULL, FALSE, db.email_logs, queue, <<"send_failed">>)
    ELSE IF out.store = "fail"
    THEN SendResponse(200, SesMessageId(0), FALSE, db.email_logs, queue,
                      <<"send", "commit_failed">>)
    ELSE SendResponse(200, SesMessageId(0), FALSE,
                      Append(db.email_logs,
                             SendLog(NULL, NoId, NoId, request.recipient,
                                     SesMessageId(0), "sent")),
                      queue, <<"send", "commit">>)

\* subscribers of both tenants, one of them possibly not active
SendSubscribers ==
    {<<Subscriber("T1", "a@example.com", "active"),
       Subscriber("T1", "b@example.com", st),
       Subscriber("T2", "b@example.com", "active")>> :
        st \in {"active", "unsubscribed"}}

InitSend ==
    /\ settings \in Configs
    /\ email_logs = <<>>
    /\ email_events = <<>>
    /\ suppressed_emails = <<>>
    /\ subscribers \in SendSubscribers
    /\ now = FirstNow
    /\ inflight = [r \in Reqs |-> Idle]
    /\ campaigns = InitCampaigns
    /\ campaign_run = NoRun
    /\ rate_limiter = RateLimiter(RateLimitPerMinute)
    /\ monotonic = 0
    /\ email_queue = <<>>
    /\ last = Answered("none", NoRequest, Quiet(0, NULL))

SendOpen == now < FirstNow + MaxSends

\* POST /campaigns/{id}/send-now
CampaignRun ==
    /\ SendOpen
    /\ \E campaign \in Campaigns, fail_at \in 0..2, reuses_ids \in BOOLEAN :
         LET sending == UpdateCampaignStatus(CampaignSession(campaigns),
                                             campaign.id, "sending")
             res == RunCampaign(Db, email_queue, campaign, fail_at, reuses_ids)
             completed == UpdateCampaignStatus(sending, campaign.id, "completed")
         IN /\ email_logs' = res.email_logs
            /\ email_queue' = res.email_queue
            /\ campaigns' = CloseCampaignSession(completed, campaign.id, res.code # 200)
            /\ last' = [op |-> "campaign", req |-> campaign, code |-> res.code,
                        enqueued |-> res.enqueued]
    /\ now' = now + 1
    /\ UNCHANGED <<rate_limiter, monotonic, campaign_run, settings, email_events, suppressed_emails, subscribers,
                   inflight>>

\* POST /send/send-test
SendTest ==
    /\ SendOpen
    /\ \E recipient \in Emails, enqueue \in BOOLEAN, out \in SendOutcomes :
         LET request == [recipient |-> recipient, enqueue |-> enqueue]
             res == SendTestEmail(Db, email_queue, request, out)
         IN /\ email_logs' = res.email_logs
            /\ email_queue' = res.email_queue
            /\ last' = [op |-> "send_test", req |-> request, out |-> out,
                        code |-> res.code, message_id |-> res.message_id,
                        queued |-> res.queued, steps |-> res.steps]
    /\ now' = now + 1
    /\ UNCHANGED <<rate_limiter, monotonic, campaigns, campaign_run, settings, email_events, suppressed_emails, subscribers, inflight>>

\* the worker takes a job of the queue and runs process_email_job
WorkerRun ==
    /\ SendOpen
    /\ \E k \in 1..Len(email_queue), provider \in {"ok", "fail"}, store \in WorkerStores :
         /\ ~email_queue[k].done
         /\ email_logs' = ProcessEmailJob(email_logs, k, email_queue[k], provider, store, now)
         /\ email_queue' =
                [email_queue EXCEPT
                   ![k].done = TRUE, ![k].attempts = @ + 1,
                   ![k].marked = IF provider = "ok" /\ store = "ok"
                                 THEN SendId(k, email_queue[k]) ELSE @]
         /\ last' = [op |-> "job", req |-> email_queue[k], code |-> 0]
                     @@ JobResult(email_queue[k],
                                  IF provider = "ok" THEN SendId(k, email_queue[k])
                                  ELSE NULL,
                                  provider, store)
    /\ now' = now + 1
    /\ UNCHANGED <<rate_limiter, monotonic, campaigns, campaign_run, settings, email_events, suppressed_emails, subscribers, inflight>>

\* bounces and complaints for the messages the jobs sent
SendSideRequests ==
    {[payload |-> Envelope("Notification", TopicOk, "s1", "1", SigGood, CertUrlOk, NULL,
                           Message("json", nt, "m1", NoDestination,
                                   IF nt = "Bounce" THEN "Permanent" ELSE NULL, NULL,
                                   <<"a@example.com">>, TsGood, NULL)),
      net |-> "ok"] : nt \in {"Bounce", "Complaint"}}

\* POST /events/sns between the sends
SendSideSns == SendOpen /\ Serve(SendSideRequests)

NextSend == CampaignRun \/ SendTest \/ WorkerRun \/ SendSideSns \/ AddSuppressionApi

SpecSend == InitSend /\ [][NextSend]_vars

(* The worker and the notifications about its sends: process_email_job in  *)
(* two steps, SES accepting the message and the row being marked. The queue  *)
(* is at-least-once: a job that has ended may be handed out again.           *)

\* number of steps of one behaviour of the worker side
MaxWorkerSteps == 3

\* tenant T1's campaign has run and its first job has been executed
RanCampaign ==
    RunCampaign([email_logs |-> <<>>, email_events |-> <<>>,
                 suppressed_emails |-> <<>>, subscribers |-> InitSubscribers],
                <<>>, [id |-> 1, tenant_id |-> "T1"], 0, TRUE)

InitWorker ==
    /\ settings \in Configs
    /\ email_logs = ProcessEmailJob(RanCampaign.email_logs, 1, RanCampaign.email_queue[1],
                                    "ok", "ok", SendTime)
    /\ email_events = <<>>
    /\ suppressed_emails = <<>>
    /\ subscribers = InitSubscribers
    /\ now = FirstNow
    /\ inflight = [r \in Reqs |-> Idle]
    /\ campaigns = [InitCampaigns EXCEPT ![1] = "completed"]
    /\ campaign_run = NoRun
    /\ rate_limiter = RateLimiter(RateLimitPerMinute)
    /\ monotonic = 0
    /\ email_queue = [RanCampaign.email_queue EXCEPT
                        ![1].done = TRUE, ![1].attempts = 1,
                        ![1].marked = SesMessageId(1)]
    /\ last = Answered("none", NoRequest, Quiet(0, NULL))

WorkerOpen == now < FirstNow + MaxWorkerSteps

\* line 73: SES accepts the message of job k and returns its MessageId
WorkerSend ==
    /\ WorkerOpen
    /\ \E k \in 1..Len(email_queue) :
         /\ email_queue[k].accepted = NULL
         /\ email_queue' =
                [email_queue EXCEPT
                   ![k].accepted = SendId(k, email_queue[k]),
                   ![k].attempts = @ + 1, ![k].done = FALSE]
         /\ last' = [op |-> "ses", req |-> email_queue[k], code |-> 0,
                     message_id |-> SendId(k, email_queue[k])]
    /\ now' = now + 1
    /\ UNCHANGED <<rate_limiter, monotonic, campaigns, campaign_run, settings, email_logs, email_events, suppressed_emails, subscribers,
                   inflight>>

\* lines 74-81: the execution that SES answered marks its row and ends
WorkerMark ==
    /\ WorkerOpen
    /\ \E k \in 1..Len(email_queue), store \in WorkerStores :
         /\ email_queue[k].accepted # NULL
         /\ email_logs' = AfterSend(email_logs, email_queue[k], email_queue[k].accepted,
                                    store, now)
         /\ email_queue' =
                [email_queue EXCEPT
                   ![k].done = TRUE, ![k].accepted = NULL,
                   ![k].marked = IF store = "ok" THEN email_queue[k].accepted ELSE @]
         /\ last' = [op |-> "job", req |-> email_queue[k], code |-> 0]
                     @@ JobResult(email_queue[k], email_queue[k].accepted, "ok", store)
    /\ now' = now + 1
    /\ UNCHANGED <<rate_limiter, monotonic, campaigns, campaign_run, settings, email_events, suppressed_emails, subscribers, inflight>>

\* lines 73 and 78-81: send_email raises, the row is marked failed
WorkerFail ==
    /\ WorkerOpen
    /\ \E k \in 1..Len(email_queue), store \in {"ok", "fails"} :
         /\ email_queue[k].accepted = NULL
         /\ email_logs' = AfterSendError(email_logs, email_queue[k], store, now)
         /\ email_queue' = [email_queue EXCEPT ![k].done = TRUE, ![k].attempts = @ + 1]
         /\ last' = [op |-> "job", req |-> email_queue[k], code |-> 0]
                     @@ JobResult(email_queue[k], NULL, "fail", store)
    /\ now' = now + 1
    /\ UNCHANGED <<rate_limiter, monotonic, campaigns, campaign_run, settings, email_events, suppressed_emails, subscribers, inflight>>

\* what SES reports about the messages of the two jobs
WorkerSideRequests ==
    {[payload |-> Envelope("Notification", TopicOk, NULL, "1", SigGood, CertUrlOk, NULL,
                           Message("json", nt, mid, NoDestination,
                                   IF nt = "Bounce" THEN "Permanent" ELSE NULL, NULL,
                                   IF nt = "Delivery" THEN <<>>
                                   ELSE IF mid = SesMessageId(2) THEN <<"b@example.com">>
                                   ELSE <<"a@example.com">>,
                                   TsGood, NULL)),
      net |-> "ok"] :
        nt \in {"Delivery", "Bounce", "Complaint"},
        mid \in {SesMessageId(1), SesMessageId(2)}}

\* POST /events/sns while the worker runs
WorkerSns == WorkerOpen /\ Serve(WorkerSideRequests)

NextWorker == WorkerSend \/ WorkerMark \/ WorkerFail \/ WorkerSns

SpecWorker == InitWorker /\ [][NextWorker]_vars

(* A campaign run in two steps, with the requests of other sessions between *)
(* them: lines 19 to 22 (the session opens, the status is set to sending,    *)
(* the recipients are loaded), then lines 23 to 26 and the commit            *)

\* number of steps of one behaviour of the campaign runs
MaxCampaignSteps == 4

InitCampaign ==
    /\ settings \in Configs
    /\ email_logs = <<>>
    /\ email_events = <<>>
    /\ suppressed_emails = <<>>
    /\ subscribers \in SendSubscribers
    /\ now = FirstNow
    /\ inflight = [r \in Reqs |-> Idle]
    /\ campaigns = InitCampaigns
    /\ campaign_run = NoRun
    /\ rate_limiter = RateLimiter(RateLimitPerMinute)
    /\ monotonic = 0
    /\ email_queue = <<>>
    /\ last = Answered("none", NoRequest, Quiet(0, NULL))

CampaignOpen == now < FirstNow + MaxCampaignSteps

\* run_campaign, lines 19 to 22
RunOpen ==
    /\ CampaignOpen
    /\ ~campaign_run.open
    /\ \E campaign \in Campaigns :
         LET tx == UpdateCampaignStatus(CampaignSession(campaigns), campaign.id, "sending")
         IN /\ campaigns' = tx.committed
            /\ campaign_run' = [open |-> TRUE, campaign |-> campaign,
                                pending |-> tx.pending,
                                recipients |-> LoadRecipients(Db, campaign.tenant_id)]
            /\ last' = [op |-> "run_open", req |-> campaign, code |-> 0]
    /\ now' = now + 1
    /\ UNCHANGED <<rate_limiter, monotonic, settings, email_logs, email_events, suppressed_emails, subscribers,
                   inflight, email_queue>>

\* run_campaign, lines 23 to 26, and the exit of session_scope
RunClose ==
    /\ campaign_run.open
    /\ \E fail_at \in 0..2, reuses_ids \in BOOLEAN :
         LET campaign == campaign_run.campaign
             res == EnqueueAndCommit(Db, email_queue, campaign, campaign_run.recipients,
                                     fail_at, reuses_ids)
             tx == UpdateCampaignStatus([committed |-> campaigns,
                                         pending |-> campaign_run.pending],
                                        campaign.id, "completed")
         IN /\ email_logs' = res.email_logs
            /\ email_queue' = res.email_queue
            /\ campaigns' = CloseCampaignSession(tx, campaign.id, res.code # 200)
            /\ last' = [op |-> "campaign", req |-> campaign, code |-> res.code,
                        enqueued |-> res.enqueued]
    /\ campaign_run' = NoRun
    /\ now' = now + 1
    /\ UNCHANGED <<rate_limiter, monotonic, settings, email_events, suppressed_emails, subscribers, inflight>>

\* GET /campaigns/{campaign_id}, a session of its own
GetCampaign ==
    /\ CampaignOpen
    /\ \E campaign \in Campaigns :
         last' = [op |-> "get_campaign", req |-> campaign, code |-> 200,
                  status |-> campaigns[campaign.id]]
    /\ now' = now + 1
    /\ UNCHANGED <<rate_limiter, monotonic, settings, email_logs, email_events, suppressed_emails, subscribers,
                   inflight, email_queue, campaigns, campaign_run>>

NextCampaign == RunOpen \/ RunClose \/ GetCampaign \/ AddSuppressionApi

SpecCampaign == InitCampaign /\ [][NextCampaign]_vars

(* The rate limiter of the send route: RateLimiter.check and the clock it    *)
(* reads                                                                     *)

\* the largest max_per_minute of a limiter
MaxRate == 3

\* the clock stops at this many quarters of a minute
MaxMonotonic == 5

\* time.monotonic() counts quarters of a minute: elapsed / 60 is quarters / 4
QuartersPerMinute == 4

\* once a minimum
Min(a, b) == IF a <= b THEN a ELSE b

\* variant: the refilled allowance is not cut at max_per_minute
CheckUnclamped(limiter, key, clock) ==
    LET held == limiter.allowance[key]
        current == IF held.stored THEN held.current ELSE limiter.max_per_minute
        last_refill == IF held.stored THEN held.last_refill ELSE clock
        refill == ((clock - last_refill) * limiter.max_per_minute) \div QuartersPerMinute
        filled == IF refill > 0 THEN current + refill ELSE current
    IN IF filled <= 0 THEN [code |-> 429, limiter |-> limiter]
       ELSE [code |-> 200,
             limiter |-> [limiter EXCEPT
                            !.allowance[key] =
                                [stored |-> TRUE, current |-> filled - 1,
                                 last_refill |-> IF refill > 0 THEN clock
                                                 ELSE last_refill]]]

\* RateLimiter.check(key) at the instant clock: 200 stands for returning,
\* 429 for the HTTPException
Check(limiter, key, clock) ==
    LET held == limiter.allowance[key]
        current == IF held.stored THEN held.current ELSE limiter.max_per_minute
        last_refill == IF held.stored THEN held.last_refill ELSE clock
        refill == ((clock - last_refill) * limiter.max_per_minute) \div QuartersPerMinute
        filled == IF refill > 0 THEN Min(limiter.max_per_minute, current + refill)
                  ELSE current
    IN IF filled <= 0 THEN [code |-> 429, limiter |-> limiter]
       ELSE [code |-> 200,
             limiter |-> [limiter EXCEPT
                            !.allowance[key] =
                                [stored |-> TRUE, current |-> filled - 1,
                                 last_refill |-> IF refill > 0 THEN clock
                                                 ELSE last_refill]]]

InitRate ==
    /\ settings \in Configs
    /\ email_logs = <<>>
    /\ email_events = <<>>
    /\ suppressed_emails = <<>>
    /\ subscribers = InitSubscribers
    /\ now = FirstNow
    /\ inflight = [r \in Reqs |-> Idle]
    /\ campaigns = InitCampaigns
    /\ campaign_run = NoRun
    /\ rate_limiter \in {RateLimiter(n) : n \in 0..MaxRate}
    /\ monotonic = 0
    /\ email_queue = <<>>
    /\ last = Answered("none", NoRequest, Quiet(0, NULL))

\* the place of a check in a run of checks of one key that began with the
\* key not held and during which the clock stood still (0: in no such run)
NthSinceFresh(key) ==
    IF ~rate_limiter.allowance[key].stored THEN 1
    ELSE IF /\ last.op = "rate_check" /\ last.req = key
            /\ last.at = monotonic /\ last.nth > 0
    THEN last.nth + 1
    ELSE 0

\* await _rate_limiter.check(key)
RateCheck ==
    /\ \E key \in RateKeys :
         LET res == Check(rate_limiter, key, monotonic)
         IN /\ NthSinceFresh(key) <= MaxRate + 2
            /\ rate_limiter' = res.limiter
            /\ last' = [op |-> "rate_check", req |-> key, code |-> res.code,
                        at |-> monotonic, nth |-> NthSinceFresh(key)]
    /\ UNCHANGED <<settings, email_logs, email_events, suppressed_emails, subscribers,
                   now, inflight, email_queue, campaigns, campaign_run, monotonic>>

\* time passes between two checks
TimePasses ==
    /\ \E quarters \in {1, 2, QuartersPerMinute} :
         /\ monotonic + quarters <= MaxMonotonic
         /\ monotonic' = monotonic + quarters
    /\ UNCHANGED <<settings, email_logs, email_events, suppressed_emails, subscribers,
                   now, inflight, email_queue, campaigns, campaign_run, rate_limiter,
                   last>>

NextRate == RateCheck \/ TimePasses

SpecRate == InitRate /\ [][NextRate]_vars

\* a campaign run, a test send, a job of the worker was served in this step
CampaignStep == last'.op = "campaign" /\ now' = now + 1
SendTestStep == last'.op = "send_test" /\ now' = now + 1
JobStep == last'.op = "job" /\ now' = now + 1

\* the tenant has a SuppressedEmail row for the email before the step
SuppressedBefore(tenant_id, email) ==
    \E j \in 1..Len(suppressed_emails) :
        /\ suppressed_emails[j].tenant_id = tenant_id
        /\ suppressed_emails[j].email = email

\* the tenant has an active subscriber with the email before the step
ActiveBefore(tenant_id, email) ==
    \E i \in 1..Len(subscribers) :
        /\ subscribers[i].tenant_id = tenant_id
        /\ subscribers[i].email = email
        /\ subscribers[i].status = "active"

\* C27: a campaign run creates no EmailLog and enqueues no job for an email
\* that had a SuppressedEmail row of the campaign's tenant when the run
\* started, nor for a subscriber whose status was not active
C27_SuppressedNeverSentTo ==
    [][CampaignStep
       => /\ \A k \in (Len(email_logs) + 1)..Len(email_logs') :
                /\ email_logs'[k].tenant_id = last'.req.tenant_id
                /\ ~SuppressedBefore(email_logs'[k].tenant_id,
                                     email_logs'[k].recipient_email)
                /\ subscribers[email_logs'[k].subscriber_id].status = "active"
          /\ \A k \in (Len(email_queue) + 1)..Len(email_queue') :
                /\ ~SuppressedBefore(last'.req.tenant_id, email_queue'[k].recipient)
                /\ ActiveBefore(last'.req.tenant_id, email_queue'[k].recipient)]_vars

\* a run of tenant T1's campaign after a@example.com was suppressed for T1:
\* the one EmailLog it created is b@example.com's
C27_Witness ==
    /\ last.op = "campaign"
    /\ last.req.tenant_id = "T1"
    /\ last.code = 200
    /\ last.enqueued = 1
    /\ \E j \in 1..Len(suppressed_emails) :
          suppressed_emails[j] = SuppressedEmail("T1", "a@example.com", "manual")
    /\ Len(email_logs) = 1
    /\ email_logs[1].recipient_email = "b@example.com"
    /\ Len(email_queue) = 1

\* the jobs that carry the id of EmailLog i
JobsOf(queue, i) == {k \in 1..Len(queue) : queue[k].email_log_id = i}

\* every EmailLog of a campaign run or of a test send that was enqueued is
\* referenced by exactly one job
OneJobPerLog(logs, queue) ==
    \A i \in 1..Len(logs) :
        (logs[i].campaign_id # NoId \/ logs[i].provider_job_id # NoId)
        => Cardinality(JobsOf(queue, i)) = 1

\* C28: an execution of process_email_job changes only the EmailLog whose id
\* it was given, and every EmailLog created by a campaign run or by an
\* enqueued test send is referenced by exactly one enqueued job
C28_EachJobOwnsOneLog ==
    [][/\ JobStep
          => /\ Len(email_logs') = Len(email_logs)
             /\ \A i \in 1..Len(email_logs) :
                   i # last'.req.email_log_id => email_logs'[i] = email_logs[i]
       /\ OneJobPerLog(email_logs', email_queue')]_vars

\* the step appended exactly one EmailLog and left the others alone
OneLogAdded ==
    /\ Len(email_logs') = Len(email_logs) + 1
    /\ SubSeq(email_logs', 1, Len(email_logs)) = email_logs

\* C30: send_test_email with enqueue = false calls the provider before the
\* store, answers with the provider's message id and queued = false, and
\* records an EmailLog with that message id and status sent; when that
\* EmailLog cannot be persisted the response is the same. With enqueue = true
\* the EmailLog is committed with status queued before the job is enqueued
\* and the response carries the job id with queued = true
C30_SendTestOrderAndResponse ==
    [][(SendTestStep /\ last'.out.rate = "ok")
       => IF ~last'.req.enqueue
          THEN /\ last'.steps[1] \in {"send", "send_failed"}
               /\ email_queue' = email_queue
               /\ last'.out.provider = "fail"
                  => last'.code = 500 /\ email_logs' = email_logs
               /\ last'.out.provider = "ok"
                  => /\ last'.code = 200
                     /\ last'.queued = FALSE
                     /\ last'.message_id = SesMessageId(0)
                     /\ last'.out.store = "fail" => email_logs' = email_logs
                     /\ last'.out.store = "ok"
                        => /\ OneLogAdded
                           /\ email_logs'[Len(email_logs')].message_id = last'.message_id
                           /\ email_logs'[Len(email_logs')].status = "sent"
                           /\ email_logs'[Len(email_logs')].recipient_email
                                = last'.req.recipient
          ELSE /\ last'.out.store = "fail"
                  => email_logs' = email_logs /\ email_queue' = email_queue
               /\ last'.out.store = "ok"
                  => /\ OneLogAdded
                     /\ email_logs'[Len(email_logs')].status = "queued"
                     /\ last'.steps[1] = "commit"
                     /\ last'.steps[2] \in {"enqueue", "enqueue_failed"}
               /\ (last'.out.store = "ok" /\ last'.out.queue = "fail")
                  => email_queue' = email_queue /\ last'.code = 500
               /\ (last'.out.store = "ok" /\ last'.out.queue = "ok")
                  => /\ last'.code = 200
                     /\ last'.queued = TRUE
                     /\ Len(email_queue') = Len(email_queue) + 1
                     /\ last'.message_id = Len(email_queue')
                     /\ email_queue'[Len(email_queue')].email_log_id = Len(email_logs')
                     /\ email_logs'[Len(email_logs')].provider_job_id = last'.message_id]_vars

\* a synchronous test send whose EmailLog could not be persisted was still
\* answered 200 with the provider's message id
C30_Witness ==
    /\ last.op = "send_test"
    /\ ~last.req.enqueue
    /\ last.out.provider = "ok"
    /\ last.out.store = "fail"
    /\ last.code = 200
    /\ last.message_id = SesMessageId(0)
    /\ last.queued = FALSE

\* the EmailEvent rows this step added
AddedEvents == {email_events'[k] : k \in (Len(email_events) + 1)..Len(email_events')}

\* C38: an EmailEvent has signature_verified = true only if
\* verify_sns_signature was invoked for the envelope that produced it and
\* returned verified; an event accepted while verification was disabled or
\* skipped is stored with signature_verified = false
C38_VerifiedFlagMeansVerifierPassed ==
    [][SnsStep
       => \A e \in AddedEvents :
            /\ e.signature_verified
               => /\ last'.verifier_calls = 1
                  /\ Checked.verified
            /\ ~SignatureDemanded => ~e.signature_verified
            /\ e.signature_verified = last'.signature_verified]_vars

\* a notification whose signature verified left an event marked as verified
C38_Witness ==
    /\ last.op = "sns" /\ last.code = 200
    /\ last.verifier_calls = 1
    /\ Len(email_events) > 0
    /\ \A k \in 1..Len(email_events) : email_events[k].signature_verified

\* the tenants of the EmailLogs the notification is applied to
CorrelatedTenants == {email_logs[i].tenant_id : i \in Targets(email_logs, Body)} \ {NULL}

\* every address the notification names: bounced or complained recipients
\* and mail.destination
NamedInEvent == ListedRecipients(Body) \cup (SeqToSet(Body.destination.items) \ {NULL})

\* C37: reconciliation creates SuppressedEmail rows only for the tenants of
\* the correlated EmailLogs and only for addresses the event names; an event
\* correlated only to EmailLogs without tenant_id creates no SuppressedEmail
\* and changes no Subscriber; no other tenant's suppression list or
\* subscribers change
C37_SuppressionStaysInCorrelatedTenants ==
    [][ProcessedNotification
       => /\ Len(suppressed_emails') >= Len(suppressed_emails)
          /\ SubSeq(suppressed_emails', 1, Len(suppressed_emails)) = suppressed_emails
          /\ \A k \in (Len(suppressed_emails) + 1)..Len(suppressed_emails') :
                /\ suppressed_emails'[k].tenant_id \in CorrelatedTenants
                /\ suppressed_emails'[k].email \in NamedInEvent
          /\ Len(subscribers') = Len(subscribers)
          /\ \A i \in 1..Len(subscribers) :
                subscribers'[i] # subscribers[i]
                => /\ subscribers[i].tenant_id \in CorrelatedTenants
                   /\ subscribers[i].email \in NamedInEvent
          /\ CorrelatedTenants = {} => SuppressionUnchanged]_vars

\* a bounce for b@example.com correlated to tenant T1's log only: T1 has the
\* suppression, tenant T2's subscriber with the same address is still active
C37_Witness ==
    /\ last.op = "sns" /\ last.code = 200
    /\ \E k \in 1..Len(suppressed_emails) :
          /\ suppressed_emails[k].tenant_id = "T1"
          /\ suppressed_emails[k].email = "b@example.com"
          /\ suppressed_emails[k].reason \in {"bounce", "complaint"}
    /\ \A k \in 1..Len(suppressed_emails) : suppressed_emails[k].tenant_id = "T1"
    /\ subscribers[2].status = "suppressed"
    /\ subscribers[3].status = "active"

\* an execution of process_email_job for an existing EmailLog ended in this step
JobEnded ==
    /\ JobStep
    /\ last'.req.email_log_id \in 1..Len(email_logs)

\* C31: process_email_job given an email_log_id ends in exactly one of two
\* ways: the provider accepted the send, the EmailLog has status sent, the
\* returned provider id as message_id and last_event_type send, and the id is
\* returned; or the send raised, the EmailLog has status failed,
\* last_event_type send_failed, the first 1024 characters of the error as
\* last_smtp_response and its message_id unchanged, and the exception is
\* re-raised
C31_JobEndsSentOrFailed ==
    [][JobEnded
       => LET before == email_logs[last'.req.email_log_id]
              after == email_logs'[last'.req.email_log_id]
          IN \/ /\ last'.provider = "ok"
                /\ after.status = "sent"
                /\ after.message_id = last'.message_id
                /\ after.last_event_type = "send"
                /\ last'.returned = last'.message_id
                /\ ~last'.raised
             \/ /\ last'.provider = "fail"
                /\ after.status = "failed"
                /\ after.last_event_type = "send_failed"
                /\ after.last_smtp_response = FirstChars(SesErrorText, MaxResponseLen)
                /\ after.message_id = before.message_id
                /\ last'.raised]_vars

\* the statuses only a notification gives
NotifiedStatuses == {"delivered", "bounced", "complaint"}

\* C34 as stated: once an EmailLog has status delivered, bounced or complaint
\* from a notification, no worker execution changes its status or message_id,
\* even when the queue executes the same job more than once
C34_NotifiedStatusSurvivesWorker ==
    [][JobStep
       => \A i \in 1..Len(email_logs) :
            email_logs[i].status \in NotifiedStatuses
            => /\ email_logs'[i].status = email_logs[i].status
               /\ email_logs'[i].message_id = email_logs[i].message_id]_vars

\* C34, amended: once an EmailLog has status delivered, bounced or complaint
\* from a notification, an execution of a job given another email_log_id
\* changes neither its status nor its message_id; an execution of the job
\* given its id overwrites them: sent and the new provider id when the send
\* and _mark_log_sent succeed, else failed or unchanged with the message_id
\* kept
C34_OnlyOwnJobOverwritesNotifiedStatus ==
    [][JobStep
       => \A i \in 1..Len(email_logs) :
            email_logs[i].status \in NotifiedStatuses
            => IF i # last'.req.email_log_id
               THEN /\ email_logs'[i].status = email_logs[i].status
                    /\ email_logs'[i].message_id = email_logs[i].message_id
               ELSE IF ~last'.raised
               THEN /\ email_logs'[i].status = "sent"
                    /\ email_logs'[i].message_id = last'.returned
               ELSE /\ email_logs'[i].status \in {email_logs[i].status, "failed"}
                    /\ email_logs'[i].message_id = email_logs[i].message_id]_vars

\* the job of a delivered EmailLog was executed again: the log is back to
\* sent and carries the second send's id
C34_Witness ==
    /\ last.op = "job"
    /\ ~last.raised
    /\ last.req.attempts > 1
    /\ last.req.email_log_id = 1
    /\ email_logs[1].status = "sent"
    /\ email_logs[1].message_id = last.returned
    /\ email_logs[1].message_id # SesMessageId(1)
    /\ \E e \in 1..Len(email_events) :
          /\ email_events[e].email_log_id = 1
          /\ email_events[e].event_type = "delivery"

\* C39: an EmailLog's bounce_type and bounce_subtype are non-null only if its
\* last_event_type is bounce, and its complaint_type is non-null only if its
\* last_event_type is complaint, also after the worker updates that follow a
\* bounce or a complaint
C39_ClassificationMatchesLastEvent ==
    \A i \in 1..Len(email_logs) :
        /\ (email_logs[i].bounce_type # NULL \/ email_logs[i].bounce_subtype # NULL)
           => email_logs[i].last_event_type = "bounce"
        /\ email_logs[i].complaint_type # NULL
           => email_logs[i].last_event_type = "complaint"

\* a Delivery, Bounce or Complaint was processed in this step
FeedbackProcessed ==
    /\ ProcessedNotification
    /\ Body.notificationType \in {"Delivery", "Bounce", "Complaint"}

\* the jobs whose send SES answered with the id the notification carries:
\* the execution under way, or the one whose _mark_log_sent has committed
SentAs(mid) ==
    {k \in 1..Len(email_queue) :
        /\ email_queue[k].email_log_id \in 1..Len(email_logs)
        /\ (email_queue[k].accepted = mid \/ email_queue[k].marked = mid)}

\* C32 as stated: a Delivery, Bounce or Complaint carrying the provider
\* message id of a worker's send updates the status of that EmailLog, also
\* when it is handled before the worker has committed the message_id
C32_FeedbackAlwaysReachesTheLog ==
    [][FeedbackProcessed
       => \A k \in SentAs(Body.messageId) :
            email_logs'[email_queue[k].email_log_id].status
                = StatusFor(Body.notificationType)]_vars

\* C32, amended: the notification updates the status of the EmailLog if the
\* EmailLog carries that message_id when the notification is handled, which
\* it does once _mark_log_sent has committed it and until a later execution
\* of the job replaces it; a notification handled before that commit leaves
\* the EmailLog unchanged
C32_FeedbackReachesTheLogOnceCommitted ==
    [][FeedbackProcessed
       => \A k \in 1..Len(email_queue) :
            LET i == email_queue[k].email_log_id
            IN i \in 1..Len(email_logs)
               => /\ email_queue[k].marked = Body.messageId
                     => email_logs[i].message_id = Body.messageId
                  /\ IF email_logs[i].message_id = Body.messageId
                     THEN email_logs'[i].status = StatusFor(Body.notificationType)
                     ELSE email_logs'[i] = email_logs[i]]_vars

\* the second job's send was committed as m2 and the delivery of m2, handled
\* afterwards, set its EmailLog to delivered
C32_Witness ==
    /\ last.op = "sns" /\ last.code = 200
    /\ last.req.payload.Message.notificationType = "Delivery"
    /\ last.req.payload.Message.messageId = SesMessageId(2)
    /\ email_queue[2].marked = SesMessageId(2)
    /\ email_logs[2].status = "delivered"
    /\ email_logs[2].message_id = SesMessageId(2)

\* C33: every job in the queue names an EmailLog that is committed, the one
\* that was created for the job's recipient, so the worker that executes it
\* finds the row; no job is left naming a row of a transaction rolled back
C33_JobsNameCommittedLogs ==
    \A k \in 1..Len(email_queue) :
        /\ email_queue[k].email_log_id \in 1..Len(email_logs)
        /\ email_logs[email_queue[k].email_log_id].recipient_email
               = email_queue[k].recipient

\* the EmailLogs of a campaign for a subscriber, the jobs for a recipient
LogsFor(logs, campaign_id, subscriber_id) ==
    {k \in 1..Len(logs) : /\ logs[k].campaign_id = campaign_id
                          /\ logs[k].subscriber_id = subscriber_id}
JobsTo(queue, recipient) == {k \in 1..Len(queue) : queue[k].recipient = recipient}

\* C36 as stated: whatever runs of a campaign were made, each subscriber has
\* at most one EmailLog of that campaign
C36_OneLogPerSubscriberAndCampaign ==
    \A c \in Campaigns, i \in 1..Len(subscribers) :
        Cardinality(LogsFor(email_logs, c.id, i)) <= 1

\* C36, amended: one invocation of a campaign run creates at most one
\* EmailLog and enqueues at most one job for each subscriber; every further
\* invocation for the same campaign creates them again
C36_OneLogPerSubscriberAndRun ==
    [][CampaignStep
       => /\ Len(email_logs') >= Len(email_logs)
          /\ Len(email_queue') >= Len(email_queue)
          /\ \A i \in 1..Len(subscribers) :
                /\ Cardinality(LogsFor(email_logs', last'.req.id, i))
                      <= Cardinality(LogsFor(email_logs, last'.req.id, i)) + 1
                /\ Cardinality(JobsTo(email_queue', subscribers[i].email))
                      <= Cardinality(JobsTo(email_queue, subscribers[i].email)) + 1]_vars

\* the second successful run of campaign 1: subscriber 1 has two EmailLogs
\* of the campaign and two jobs
C36_Witness ==
    /\ last.op = "campaign" /\ last.code = 200 /\ last.req.id = 1
    /\ Cardinality(LogsFor(email_logs, 1, 1)) = 2
    /\ Cardinality(JobsTo(email_queue, subscribers[1].email)) = 2

\* the subscribers a run that starts now sends to: the tenant's active
\* subscribers with no SuppressedEmail row of the tenant for their email
Eligible(tenant_id) ==
    {i \in 1..Len(subscribers) :
        /\ subscribers[i].tenant_id = tenant_id
        /\ subscribers[i].status = "active"
        /\ ~SuppressedBefore(tenant_id, subscribers[i].email)}

\* C35: a run loads each eligible subscriber once; when it succeeds it has
\* added, for each of them, one EmailLog with status queued and the
\* campaign's tenant_id and campaign_id and one job naming that EmailLog, it
\* returns their number and the campaign is committed as completed; no other
\* session ever reads the status sending
C35_SuccessfulRunEnqueuesEachRecipientOnce ==
    [][/\ last'.op = "run_open"
          => /\ {campaign_run'.recipients[n] : n \in 1..Len(campaign_run'.recipients)}
                   = Eligible(last'.req.tenant_id)
             /\ Len(campaign_run'.recipients) = Cardinality(Eligible(last'.req.tenant_id))
       /\ (CampaignStep /\ last'.code = 200)
          => LET to == campaign_run.recipients
             IN /\ last'.enqueued = Len(to)
                /\ Len(email_logs') = Len(email_logs) + Len(to)
                /\ Len(email_queue') = Len(email_queue) + Len(to)
                /\ SubSeq(email_logs', 1, Len(email_logs)) = email_logs
                /\ SubSeq(email_queue', 1, Len(email_queue)) = email_queue
                /\ \A n \in 1..Len(to) :
                      LET id == Len(email_logs) + n
                          row == email_logs'[id]
                      IN /\ row.status = "queued"
                         /\ row.tenant_id = last'.req.tenant_id
                         /\ row.campaign_id = last'.req.id
                         /\ row.subscriber_id = to[n]
                         /\ row.recipient_email = subscribers[to[n]].email
                         /\ email_queue'[Len(email_queue) + n]
                               = Job(id, subscribers[to[n]].email)
                /\ campaigns'[last'.req.id] = "completed"
       /\ \A c \in DOMAIN campaigns' : campaigns'[c] # "sending"
       /\ last'.op = "get_campaign" => last'.status # "sending"]_vars

\* a run of tenant T1's campaign that loaded both subscribers, a suppression
\* added by another session while it was open, and its commit: two EmailLogs,
\* two jobs, the campaign completed
C35_Witness ==
    /\ last.op = "campaign" /\ last.code = 200 /\ last.enqueued = 2
    /\ last.req.id = 1
    /\ campaigns[1] = "completed"
    /\ Len(email_logs) = 2 /\ Len(email_queue) = 2
    /\ Len(suppressed_emails) = 1
    /\ suppressed_emails[1].tenant_id = "T1"
    /\ ~campaign_run.open

\* a check of the limiter was answered in this step
RateStep == last'.op = "rate_check" /\ rate_limiter'.max_per_minute = rate_limiter.max_per_minute
            /\ monotonic' = monotonic /\ last' # last

\* the allowance of a key once the time elapsed has been credited: a key not
\* held has max_per_minute, a held one gains max_per_minute per minute, whole
\* units only, up to max_per_minute
AfterRefill(key) ==
    LET held == rate_limiter.allowance[key]
        n == rate_limiter.max_per_minute
    IN IF ~held.stored THEN n
       ELSE IF (monotonic - held.last_refill) * n >= QuartersPerMinute
       THEN Min(n, held.current + ((monotonic - held.last_refill) * n) \div QuartersPerMinute)
       ELSE held.current

\* C40: every stored allowance is between 0 and max_per_minute; a check
\* returns and stores the refilled allowance less one exactly when the
\* refilled allowance is positive, and otherwise raises 429 and leaves the
\* limiter as it was; of the checks made on a key from the moment it is not
\* held, with the clock standing still, the first max_per_minute return and
\* the next is rejected; a check changes no other key's allowance
C40_RateLimiterAllowance ==
    [][/\ \A key \in RateKeys :
             rate_limiter'.allowance[key].stored
             => rate_limiter'.allowance[key].current \in 0..rate_limiter'.max_per_minute
       /\ RateStep
          => LET key == last'.req
             IN /\ last'.code \in {200, 429}
                /\ last'.code = 200 <=> AfterRefill(key) > 0
                /\ last'.code = 200
                   => /\ rate_limiter'.allowance[key].stored
                      /\ rate_limiter'.allowance[key].current = AfterRefill(key) - 1
                /\ last'.code = 429 => rate_limiter' = rate_limiter
                /\ last'.nth > 0
                   => (last'.code = 200 <=> last'.nth <= rate_limiter.max_per_minute)
                /\ \A other \in RateKeys \ {key} :
                      rate_limiter'.allowance[other] = rate_limiter.allowance[other]]_vars

\* a limiter of 3 per minute: the fourth check of a key in a row, the clock
\* standing still since the key's first check, is rejected and the key's
\* allowance is 0
C40_Witness ==
    /\ last.op = "rate_check" /\ last.code = 429
    /\ rate_limiter.max_per_minute = 3
    /\ last.nth = 4
    /\ rate_limiter.allowance[last.req].stored
    /\ rate_limiter.allowance[last.req].current = 0
    /\ rate_limiter.allowance[last.req].last_refill = monotonic
====
